---- MODULE Spec2Model ----
(***************************************************************************)
(* Model of the PDI listener / dispatcher pipeline of lionelPY             *)
(* (src/pdi/pdi_listener.py, src/pdi/pdi_req.py).                          *)
(*                                                                         *)
(*  DispSpec : producers calling PdiDispatcher.offer, the dispatcher       *)
(*             thread (PdiDispatcher.run) and shutdown, over a registry    *)
(*             that was filled by subscribe calls before traffic starts.   *)
(*  RegSpec  : the same, plus caller threads running subscribe,            *)
(*             unsubscribe, subscribe_any and unsubscribe_any concurrently *)
(*             with the dispatcher thread, statement by statement.         *)
(*  LsnSpec  : the transport calling PdiListener.offer and the listener    *)
(*             thread (PdiListener.run) framing the byte stream.           *)
(*  SeqSpec  : registry calls made one after another, each returning      *)
(*             before the next begins, followed by traffic.                *)
(*  RelaySpec: DispSpec plus the relay of each command to the clients      *)
(*             noted by EnqueueProxyRequests (update_client_state).        *)
(*  LifeSpec : construction and shutdown of the PdiListener and            *)
(*             PdiDispatcher singletons, statement by statement.           *)
(*  RecoverSpec, LongSpec : LsnSpec started on streams that hold a frame   *)
(*             with a special checksum byte, or a frame longer than the    *)
(*             listener's deque.                                           *)
(*  CodecSpec: one encode / decode round of a PDI frame (pdi_req.py).       *)
(*  StateSpec: reads of the ComponentStateDict and update() calls on its   *)
(*             records (src/db/component_state.py).                        *)
(*  EncSpec  : EngineOptionEnum.apply_data (src/protocol/constants.py).    *)
(*  CatSpec  : the same over the TMCC2EngineCommandDef catalog             *)
(*             (src/protocol/tmcc2/tmcc2_constants.py), followed by the    *)
(*             search for the entries that encode to the word produced.    *)
(*  LsnFairSpec, RelayFairSpec, RecoverFairSpec add weak fairness of the   *)
(*             threads, for the liveness properties.                       *)
(***************************************************************************)
EXTENDS Integers, Sequences, FiniteSets, TLC

(***************************************************************************)
(* Bounds of the model.                                                    *)
(***************************************************************************)
\* capacity of the dispatcher work queue, Queue(queue_size)
QueueSize == 2
\* number of offer() calls made by the producers in DispSpec
MaxOffers == 4
\* number of offer() calls made by the producers in RegSpec
MaxRegOffers == 1
\* number of registry calls made by the caller threads in RegSpec
MaxCalls == 2
\* number of Channel objects the registry's default factory may build
MaxChans == 6

None == 0

Producers == {"p1", "p2"}
Callers == {"t1", "t2"}
Subscribers == {"s1", "s2"}
Addrs == {1, 2, 3}
Actions == {1}

(***************************************************************************)
(* Requests.  Every PdiReq subtype has scope SYSTEM; an LcsReq carries a   *)
(* tmcc_id and an action, a TmccReq keeps the default tmcc_id 0 and no     *)
(* action, a PingReq is the request whose is_ping is true.  seq is the     *)
(* identity of the request object: its rank among the requests put().      *)
(***************************************************************************)
LcsReqs == {[kind |-> "lcs", id |-> i, action |-> a, seq |-> 0] :
                i \in Addrs, a \in Actions}

TmccReq == [kind |-> "tmcc", id |-> 0, action |-> None, seq |-> 0]

PingReq == [kind |-> "ping", id |-> 0, action |-> None, seq |-> 0]

\* offer() may also be handed None or an object that is not a PdiReq
NoneReq == [kind |-> "None", id |-> 0, action |-> None, seq |-> 0]

NotAReq == [kind |-> "other", id |-> 0, action |-> None, seq |-> 0]

Reqs == LcsReqs \cup {TmccReq, PingReq, NoneReq, NotAReq}

is_ping(req) == req.kind = "ping"

\* isinstance(cmd, PdiReq)
IsPdiReq(req) == req.kind \in {"lcs", "tmcc", "ping"}

\* isinstance(cmd, TmccReq)
IsTmccReq(req) == req.kind = "tmcc"

(***************************************************************************)
(* Topics.  A topic key is the scope alone, (scope, address),              *)
(* (scope, address, action) or the broadcast topic; the first component    *)
(* of the model's key is the length of the tuple (0 for the broadcast      *)
(* topic).                                                                 *)
(***************************************************************************)
BROADCAST_TOPIC == <<0, 0, 0>>

ScopeKey == <<1, 0, 0>>

AddrKey(address) == <<2, address, 0>>

ActionKey(address, action) == <<3, address, action>>

Topics == {BROADCAST_TOPIC, ScopeKey} \cup {AddrKey(i) : i \in Addrs}
              \cup {ActionKey(i, a) : i \in Addrs, a \in Actions}

\* PdiDispatcher._make_channel for channel = the SYSTEM scope
_make_channel(address, action) ==
    IF address = None THEN ScopeKey
    ELSE IF action = None THEN AddrKey(address)
    ELSE ActionKey(address, action)

\* the topic of the n-th publish of PdiDispatcher.run, most specific first
PublishKeyWrongAddr(stage, cmd) ==
    CASE stage = 3 -> ActionKey(cmd.id, cmd.action)
      [] stage = 2 -> AddrKey(IF cmd.id = 2 THEN 1 ELSE 2)
      [] stage = 1 -> ScopeKey
      [] OTHER -> BROADCAST_TOPIC

PublishKey(stage, cmd) ==
    CASE stage = 3 -> ActionKey(cmd.id, cmd.action)
      [] stage = 2 -> AddrKey(cmd.id)
      [] stage = 1 -> ScopeKey
      [] OTHER -> BROADCAST_TOPIC

VARIABLES
    \* ---- PdiDispatcher
    queue,        \* self._queue, FIFO of requests
    cvOwner,      \* holder of self._cv's lock, or "none"
    isRunning,    \* self._is_running
    broadcasts,   \* self._broadcasts
    pcD,          \* position of the dispatcher thread in run()
    stage,        \* which publish of the current request run() is at
    cur,          \* cmd, the request run() dequeued
    dRef,         \* the Channel object publish() looked up
    handled,      \* number of task_done() calls
    pcP,          \* position of each producer in offer()
    pReq,         \* the request each producer is offering
    offersLeft,   \* offer() calls still to be made
    reqPool,      \* the values the producers hand to offer()
    \* ---- registry: self._channels, a defaultdict(Channel)
    channels,     \* topic -> Channel object (0: key absent)
    chanSubs,     \* Channel object -> its subscribers
    \* ---- caller threads of subscribe/unsubscribe
    pcC, cArg, cRef, callsLeft,
    \* ---- history
    enqueued,     \* requests in the order put() accepted them
    pubLog,       \* publish() calls of run(): <<request index, topic>>
    received,     \* per subscriber: <<request index, topic>> delivered
    tmccFwd,      \* request indices forwarded to the TMCC dispatcher
    \* ---- PdiListener
    deque,        \* self._deque, the buffered bytes
    lsnRunning,   \* self._is_running
    pcL,          \* position of the listener thread in run()
    dqLen,        \* dq_len
    eopPos,       \* eop_pos (0-based, as in the code)
    popLeft,      \* popleft() calls left in the loop of lines 138-140
    reqBytes,     \* req_bytes
    toOffer,      \* bytes the transport has still to hand to offer()
    emitted,      \* decoded requests handed to the dispatcher, in order
    rejected,     \* frames whose decoding raised
    \* ---- relay to the remote clients (update_client_state)
    proxyBuilt,   \* EnqueueProxyRequests._instance is not None
    clientPort,   \* self._client_port is not None
    clients,      \* EnqueueProxyRequests._instance._clients
    curClients,   \* history: the clients registered when cmd was dequeued
    relayTodo,    \* the clients the loop of line 286 has still to visit
    relayLog,     \* history: <<request index, client, outcome>> per send
    \* ---- history of the calls
    shutIdx,      \* -1: no shutdown yet; else the request in flight at
                  \* shutdown() (0: none)
    callHist,     \* the last registry call begun and the registry then
    subscribedH,  \* <<subscriber, topic>> whose subscribe call returned
                  \* and that no unsubscribe call has named since
    \* ---- construction and shutdown of the singletons
    dInstance,    \* PdiDispatcher._instance (0: None)
    dObj,         \* the PdiDispatcher objects ever allocated
    lInstance,    \* PdiListener._instance (0: None)
    lObj,         \* the PdiListener objects ever allocated
    pcB,          \* position of each building thread
    bNested,      \* the dispatcher constructor runs inside PdiListener.__init__
    bSelfD,       \* the PdiDispatcher object __new__ returned to the thread
    bSelfL,       \* the PdiListener object __new__ returned to the thread
    bRet,         \* history: the objects the constructor calls returned
    buildsLeft,   \* constructor calls still to be made
    shutCalls,    \* shutdown calls still to be made
    \* ---- PdiReq encoding and decoding (pdi_req.py)
    cBody,        \* the unstuffed body handed to the encoder
    cStuffed,     \* the byte stream _calculate_checksum(body, True) returned
    cDestuffed,   \* the byte stream _calculate_checksum(stuffed, False) returned
    cFrame,       \* the frame on the wire
    cSent,        \* history: the frame as the encoder produced it
    cBack,        \* what PdiReq.from_bytes made of the frame
    pcX,          \* how far the encode / decode round has got
    \* ---- ComponentStateDict and its records (component_state.py)
    states,       \* scope -> the installed record (NoState: key absent)
    lastGet,      \* the last states[scope] access: its key and outcome
    clock,        \* datetime.now(), counted in update() calls
    prev,         \* history: the record before the last update() call
    lastCmd,      \* history: the command of the last update() call
    \* ---- EngineOptionEnum.apply_data (protocol/constants.py)
    eOpt,         \* the option apply_data is called on
    eData,        \* its data argument
    eOut,         \* the command word returned, or the error raised
    pcE,          \* "new" before the call, "done" after
    eBack,         \* the (entry, operand) pairs that encode to the word eOut
    \* ---- EnqueueHandler.handle (comm/enqueue_proxy_requests.py)
    hIn,          \* what the peer has still to send, in recv() sized chunks
    hData,        \* data, the last value recv() returned
    hStream,      \* byte_stream
    hAcks,        \* "ack" replies sent on this connection
    hClient,      \* self.client_address[0]
    pcH,          \* position of the handler in handle()
    connsLeft,    \* connections still to be accepted
    txQueue,      \* the byte strings handed to CommBuffer.enqueue_command
    hDone,        \* history: the payload of every connection handled
    \* ---- the caller of PdiListener.stop() / shutdown()
    pcS,          \* position of the caller in shutdown()
    \* ---- exceptions raised while the dispatcher handles a request
    raised        \* history: the request indices whose handling raised

dispVars == <<queue, cvOwner, isRunning, broadcasts, pcD, stage, cur, dRef,
              handled, pcP, pReq, offersLeft, reqPool, enqueued, pubLog, received,
              tmccFwd>>

regVars == <<channels, chanSubs>>

callVars == <<pcC, cArg, cRef, callsLeft>>

lsnVars == <<deque, lsnRunning, pcL, dqLen, eopPos, popLeft, reqBytes,
             toOffer, emitted, rejected>>

relayVars == <<proxyBuilt, clientPort, clients, curClients, relayTodo,
               relayLog>>

histVars == <<shutIdx, callHist, subscribedH>>

lifeVars == <<dInstance, dObj, lInstance, lObj, pcB, bNested, bSelfD, bSelfL,
              bRet, buildsLeft, shutCalls>>

codecVars == <<cBody, cStuffed, cDestuffed, cFrame, cSent, cBack, pcX>>

stateVars == <<states, lastGet, clock, prev, lastCmd>>

encVars == <<eOpt, eData, eOut, pcE, eBack>>

proxyVars == <<hIn, hData, hStream, hAcks, hClient, pcH, connsLeft, txQueue,
               hDone>>

stopVars == <<pcS>>

faultVars == <<raised>>

extVars == <<proxyVars, stopVars, faultVars>>

libVars == <<codecVars, stateVars, encVars, extVars>>

vars == <<dispVars, regVars, callVars, lsnVars, relayVars, histVars,
          lifeVars, libVars>>

(***************************************************************************)
(* The registry.                                                           *)
(***************************************************************************)
\* channel in self._channels
HasChannel(topic) == topic \in DOMAIN channels /\ channels[topic] # 0

\* the subscribers of the Channel registered under topic ({} when absent)
SubsOf(topic) == IF HasChannel(topic) THEN chanSubs[channels[topic]] ELSE {}

\* defaultdict.__missing__: build a Channel and install it under topic
CanCreate == Len(chanSubs) < MaxChans

InstallNew(topic) ==
    /\ chanSubs' = Append(chanSubs, {})
    /\ channels' = [channels EXCEPT ![topic] = Len(chanSubs) + 1]

\* Channel.subscribe / Channel.unsubscribe on a Channel object
ChannelSubscribe(ch, s) == chanSubs' = [chanSubs EXCEPT ![ch] = @ \cup {s}]

ChannelUnsubscribe(ch, s) == chanSubs' = [chanSubs EXCEPT ![ch] = @ \ {s}]

\* Channel.publish: every subscriber of the Channel object gets the message
ChannelPublish(ch, idx, topic) ==
    received' = [s \in Subscribers |->
                    IF s \in chanSubs[ch]
                    THEN Append(received[s], <<idx, topic>>)
                    ELSE received[s]]

(***************************************************************************)
(* Registries built by subscribe calls made before any request arrives.    *)
(* Each preset is the list of subscribe(subscriber, topic) calls, run one  *)
(* after the other.                                                        *)
(***************************************************************************)
RECURSIVE SubscribeAll(_, _)
SubscribeAll(calls, reg) ==
    IF calls = <<>> THEN reg
    ELSE LET s == calls[1][1]
             topic == calls[1][2]
             made == IF reg.channels[topic] # 0 THEN reg
                     ELSE [channels |-> [reg.channels EXCEPT
                                           ![topic] = Len(reg.chanSubs) + 1],
                           chanSubs |-> Append(reg.chanSubs, {})]
             ch == made.channels[topic]
         IN SubscribeAll(Tail(calls),
                [made EXCEPT !.chanSubs[ch] = @ \cup {s}])

EmptyRegistry == [channels |-> [t \in Topics |-> 0], chanSubs |-> <<>>]

SubscribePresets ==
    { <<>>,
      << <<"s1", ScopeKey>>, <<"s2", AddrKey(2)>> >>,
      << <<"s1", ActionKey(1, 1)>>, <<"s2", BROADCAST_TOPIC>> >>,
      << <<"s1", ScopeKey>>, <<"s1", BROADCAST_TOPIC>>, <<"s2", ScopeKey>> >> }

(***************************************************************************)
(* PdiDispatcher.offer, src/pdi/pdi_listener.py:299-307                    *)
(***************************************************************************)
\* line 304 without its test of is_ping
OfferAcceptsPing(req) == req # NoneReq /\ IsPdiReq(req)

\* line 304: the requests offer() puts on the queue
OfferAccepts(req) == req # NoneReq /\ IsPdiReq(req) /\ ~is_ping(req)

\* self._cv.notify(): wakes the dispatcher thread if it is in wait()
Notified(pc) == IF pc = "waiting" THEN "wakeup" ELSE pc

OfferBegin(p) ==
    /\ pcP[p] = "idle"
    /\ offersLeft > 0
    /\ offersLeft' = offersLeft - 1
    /\ \E req \in reqPool :
          IF OfferAccepts(req)
          THEN /\ pcP' = [pcP EXCEPT ![p] = "lock"]
               /\ pReq' = [pReq EXCEPT ![p] = req]
          ELSE UNCHANGED <<pcP, pReq>>
    /\ UNCHANGED <<queue, cvOwner, isRunning, broadcasts, pcD, stage, cur,
                   dRef, handled, reqPool, enqueued, pubLog, received,
                   tmccFwd>>
    /\ UNCHANGED <<regVars, callVars, lsnVars, relayVars,
                   histVars, lifeVars, libVars>>

\* line 305: with self._cv
OfferLock(p) ==
    /\ pcP[p] = "lock"
    /\ cvOwner = "none"
    /\ cvOwner' = p
    /\ pcP' = [pcP EXCEPT ![p] = "put"]
    /\ UNCHANGED <<queue, isRunning, broadcasts, pcD, stage, cur, dRef,
                   handled, pReq, offersLeft, reqPool, enqueued, pubLog, received,
                   tmccFwd>>
    /\ UNCHANGED <<regVars, callVars, lsnVars, relayVars,
                   histVars, lifeVars, libVars>>

\* lines 306-307: the blocking put, notify, and the release of the lock
OfferPut(p) ==
    /\ pcP[p] = "put"
    /\ Len(queue) < QueueSize
    /\ queue' = Append(queue, [pReq[p] EXCEPT !.seq = Len(enqueued) + 1])
    /\ enqueued' = Append(enqueued, [pReq[p] EXCEPT !.seq = Len(enqueued) + 1])
    /\ pcD' = Notified(pcD)
    /\ cvOwner' = "none"
    /\ pcP' = [pcP EXCEPT ![p] = "idle"]
    /\ pReq' = [pReq EXCEPT ![p] = NotAReq]
    /\ UNCHANGED <<isRunning, broadcasts, stage, cur, dRef, handled,
                   offersLeft, reqPool, pubLog, received, tmccFwd>>
    /\ UNCHANGED <<regVars, callVars, lsnVars, relayVars,
                   histVars, lifeVars, libVars>>

(***************************************************************************)
(* PdiDispatcher.run, src/pdi/pdi_listener.py:252-277                      *)
(***************************************************************************)
\* the request being handled, by its rank in enqueued
CurIdx == cur.seq

\* Queue.get(): the oldest request
QueueGetNewest(q) == q[Len(q)]

QueueGet(q) == Head(q)

QueueRest(q, x) ==
    LET i == CHOOSE j \in 1..Len(q) : q[j] = x /\ \A k \in 1..(j-1) : q[k] # x
    IN [k \in 1..(Len(q) - 1) |-> IF k < i THEN q[k] ELSE q[k + 1]]

\* line 253: while self._is_running
DLoop ==
    /\ pcD = "loop"
    /\ pcD' = IF isRunning THEN "lock" ELSE "done"
    /\ UNCHANGED <<queue, cvOwner, isRunning, broadcasts, stage, cur, dRef,
                   handled, pcP, pReq, offersLeft, reqPool, enqueued, pubLog,
                   received, tmccFwd>>
    /\ UNCHANGED <<regVars, callVars, lsnVars, relayVars,
                   histVars, lifeVars, libVars>>

\* lines 254-256: with self._cv: if self._queue.empty(): self._cv.wait()
DLock ==
    /\ pcD = "lock"
    /\ cvOwner = "none"
    /\ pcD' = IF queue = <<>> THEN "waiting" ELSE "check"
    /\ UNCHANGED <<queue, cvOwner, isRunning, broadcasts, stage, cur, dRef,
                   handled, pcP, pReq, offersLeft, reqPool, enqueued, pubLog,
                   received, tmccFwd>>
    /\ UNCHANGED <<regVars, callVars, lsnVars, relayVars,
                   histVars, lifeVars, libVars>>

\* line 256: wait() returns once notified and the lock is free again
DWake ==
    /\ pcD = "wakeup"
    /\ cvOwner = "none"
    /\ pcD' = "check"
    /\ UNCHANGED <<queue, cvOwner, isRunning, broadcasts, stage, cur, dRef,
                   handled, pcP, pReq, offersLeft, reqPool, enqueued, pubLog,
                   received, tmccFwd>>
    /\ UNCHANGED <<regVars, callVars, lsnVars, relayVars,
                   histVars, lifeVars, libVars>>

\* lines 257-259: second emptiness check, then cmd = self._queue.get()
DCheck ==
    /\ pcD = "check"
    /\ IF queue = <<>>
       THEN /\ pcD' = "loop"
            /\ UNCHANGED <<queue, cur>>
       ELSE /\ cur' = QueueGet(queue)
            /\ queue' = QueueRest(queue, QueueGet(queue))
            /\ pcD' = "route"
    /\ curClients' = IF queue = <<>> THEN curClients
                     ELSE Append(curClients, <<QueueGet(queue).seq, clients>>)
    /\ UNCHANGED <<cvOwner, isRunning, broadcasts, stage, dRef, handled,
                   pcP, pReq, offersLeft, reqPool, enqueued, pubLog, received,
                   tmccFwd>>
    /\ UNCHANGED <<proxyBuilt, clientPort, clients, relayTodo, relayLog>>
    /\ UNCHANGED <<regVars, callVars, lsnVars, histVars, lifeVars, libVars>>

\* lines 264-269: which requests are published on the three scoped topics
ScopedAlsoTmcc(cmd) == TRUE

Scoped(cmd) == ~IsTmccReq(cmd)

\* line 270: which requests are published on the broadcast topic
BroadcastAlso(cmd) == broadcasts

\* lines 262-266: TMCC requests go to the TMCC CommandDispatcher
DRoute ==
    /\ pcD = "route"
    /\ IF ~IsPdiReq(cur)
       THEN /\ pcD' = "finish"
            /\ UNCHANGED <<stage, tmccFwd>>
       ELSE /\ tmccFwd' = IF IsTmccReq(cur) THEN Append(tmccFwd, CurIdx)
                          ELSE tmccFwd
            /\ IF Scoped(cur)
               THEN pcD' = "pub_in" /\ stage' = 3
               ELSE pcD' = "bflag" /\ UNCHANGED stage
    /\ UNCHANGED <<queue, cvOwner, isRunning, broadcasts, cur, dRef, handled,
                   pcP, pReq, offersLeft, reqPool, enqueued, pubLog, received>>
    /\ UNCHANGED <<regVars, callVars, lsnVars, relayVars,
                   histVars, lifeVars, libVars>>

\* lines 267-271: the publish that follows the publish at stage n
NextStageSwapped(n) == CASE n = 3 -> 1 [] n = 1 -> 2 [] OTHER -> 0

NextStage(n) == n - 1

\* the position of run() after the publish at stage n returned; the
\* running flag is not looked at before the loop head
AfterPublishChecked(n) ==
    IF ~isRunning THEN [pc |-> "finish", stage |-> 0]
    ELSE IF n = 0 THEN [pc |-> "relay", stage |-> 0]
    ELSE IF NextStage(n) = 0 THEN [pc |-> "bflag", stage |-> 0]
    ELSE [pc |-> "pub_in", stage |-> NextStage(n)]

AfterPublish(n) ==
    IF n = 0 THEN [pc |-> "relay", stage |-> 0]
    ELSE IF NextStage(n) = 0 THEN [pc |-> "bflag", stage |-> 0]
    ELSE [pc |-> "pub_in", stage |-> NextStage(n)]

\* line 329: publish() is entered and tests  channel in self._channels
DPubIn ==
    /\ pcD = "pub_in"
    /\ pubLog' = Append(pubLog, <<CurIdx, PublishKey(stage, cur)>>)
    /\ IF HasChannel(PublishKey(stage, cur))
       THEN pcD' = "pub_get" /\ UNCHANGED stage
       ELSE pcD' = AfterPublish(stage).pc /\ stage' = AfterPublish(stage).stage
    /\ UNCHANGED <<queue, cvOwner, isRunning, broadcasts, cur, dRef, handled,
                   pcP, pReq, offersLeft, reqPool, enqueued, received, tmccFwd>>
    /\ UNCHANGED <<regVars, callVars, lsnVars, relayVars,
                   histVars, lifeVars, libVars>>

\* line 330: self._channels[channel], a defaultdict lookup
DPubGet ==
    /\ pcD = "pub_get"
    /\ IF HasChannel(PublishKey(stage, cur))
       THEN pcD' = "pub_call" /\ dRef' = channels[PublishKey(stage, cur)]
       ELSE pcD' = "pub_new" /\ UNCHANGED dRef
    /\ UNCHANGED <<queue, cvOwner, isRunning, broadcasts, stage, cur, handled,
                   pcP, pReq, offersLeft, reqPool, enqueued, pubLog, received,
                   tmccFwd>>
    /\ UNCHANGED <<regVars, callVars, lsnVars, relayVars,
                   histVars, lifeVars, libVars>>

\* line 330: the lookup missed, the default factory installs a new Channel
DPubNew ==
    /\ pcD = "pub_new"
    /\ CanCreate
    /\ InstallNew(PublishKey(stage, cur))
    /\ dRef' = Len(chanSubs) + 1
    /\ pcD' = "pub_call"
    /\ UNCHANGED <<queue, cvOwner, isRunning, broadcasts, stage, cur, handled,
                   pcP, pReq, offersLeft, reqPool, enqueued, pubLog, received,
                   tmccFwd>>
    /\ UNCHANGED <<callVars, lsnVars, relayVars,
                   histVars, lifeVars, libVars>>

\* line 330: .publish(message) on the Channel that was looked up
DPubCall ==
    /\ pcD = "pub_call"
    /\ ChannelPublish(dRef, CurIdx, PublishKey(stage, cur))
    /\ pcD' = AfterPublish(stage).pc
    /\ stage' = AfterPublish(stage).stage
    /\ dRef' = 0
    /\ UNCHANGED <<queue, cvOwner, isRunning, broadcasts, cur, handled, pcP,
                   pReq, offersLeft, reqPool, enqueued, pubLog, tmccFwd>>
    /\ UNCHANGED <<regVars, callVars, lsnVars, relayVars,
                   histVars, lifeVars, libVars>>

\* lines 270-271: if self._broadcasts: self.publish(BROADCAST_TOPIC, cmd)
DBflag ==
    /\ pcD = "bflag"
    /\ IF BroadcastAlso(cur)
       THEN pcD' = "pub_in" /\ stage' = 0
       ELSE pcD' = "relay" /\ UNCHANGED stage
    /\ UNCHANGED <<queue, cvOwner, isRunning, broadcasts, cur, dRef, handled,
                   pcP, pReq, offersLeft, reqPool, enqueued, pubLog, received,
                   tmccFwd>>
    /\ UNCHANGED <<regVars, callVars, lsnVars, relayVars,
                   histVars, lifeVars, libVars>>

\* list(cls._instance._clients), line 72: the set in some order
ClientLists(cs) ==
    {l \in [1..Cardinality(cs) -> cs] : \A c \in cs : \E j \in DOMAIN l : l[j] = c}

\* lines 272-273, 284-286: the relay is entered when _client_port is set
DRelay ==
    /\ pcD = "relay"
    /\ IF clientPort /\ clients # {}
       THEN /\ relayTodo' \in ClientLists(clients)
            /\ pcD' = "send"
       ELSE /\ pcD' = "finish"
            /\ UNCHANGED relayTodo
    /\ UNCHANGED <<queue, cvOwner, isRunning, broadcasts, stage, cur, dRef,
                   handled, pcP, pReq, offersLeft, reqPool, enqueued, pubLog,
                   received, tmccFwd>>
    /\ UNCHANGED <<proxyBuilt, clientPort, clients, curClients, relayLog>>
    /\ UNCHANGED <<regVars, callVars, lsnVars, histVars, lifeVars, libVars>>

\* what a send can end in: sent, ConnectionRefusedError, another Exception
SendOutcomes == {"ok", "refused", "error"}

\* lines 287-297: the try is inside the for loop, so the loop goes on with
\* the clients after this one whatever the outcome
AfterSendAbort(outcome, rest) == IF outcome = "ok" THEN rest ELSE <<>>

AfterSend(outcome, rest) == rest

\* lines 286-297: one round of the loop over the clients
DSend ==
    /\ pcD = "send"
    /\ relayTodo # <<>>
    /\ \E outcome \in SendOutcomes :
          /\ relayLog' = Append(relayLog, <<CurIdx, Head(relayTodo), outcome>>)
          /\ relayTodo' = AfterSend(outcome, Tail(relayTodo))
          /\ pcD' = IF AfterSend(outcome, Tail(relayTodo)) = <<>>
                    THEN "finish" ELSE "send"
    /\ UNCHANGED <<queue, cvOwner, isRunning, broadcasts, stage, cur, dRef,
                   handled, pcP, pReq, offersLeft, reqPool, enqueued, pubLog,
                   received, tmccFwd>>
    /\ UNCHANGED <<proxyBuilt, clientPort, clients, curClients>>
    /\ UNCHANGED <<regVars, callVars, lsnVars, histVars, lifeVars, libVars>>

\* line 277: self._queue.task_done()
DFinish ==
    /\ pcD = "finish"
    /\ handled' = handled + 1
    /\ cur' = NotAReq
    /\ pcD' = "loop"
    /\ UNCHANGED <<queue, cvOwner, isRunning, broadcasts, stage, dRef, pcP,
                   pReq, offersLeft, reqPool, enqueued, pubLog, received, tmccFwd>>
    /\ UNCHANGED <<regVars, callVars, lsnVars, relayVars,
                   histVars, lifeVars, libVars>>

(***************************************************************************)
(* PdiDispatcher.shutdown, src/pdi/pdi_listener.py:309-313                 *)
(***************************************************************************)
\* the positions of run() at which a dequeued request is being handled
Handling == {"route", "pub_in", "pub_get", "pub_new", "pub_call", "bflag",
             "relay", "send", "finish"}

DShutdown ==
    /\ isRunning
    /\ cvOwner = "none"
    /\ isRunning' = FALSE
    /\ pcD' = Notified(pcD)
    /\ shutIdx' = IF pcD \in Handling THEN CurIdx ELSE 0
    /\ UNCHANGED <<queue, cvOwner, broadcasts, stage, cur, dRef, handled,
                   pcP, pReq, offersLeft, reqPool, enqueued, pubLog, received,
                   tmccFwd>>
    /\ UNCHANGED <<callHist, subscribedH>>
    /\ UNCHANGED <<regVars, callVars, lsnVars, relayVars, lifeVars, libVars>>

(***************************************************************************)
(* DispSpec                                                                *)
(***************************************************************************)
DispInitCommon ==
    /\ queue = <<>>
    /\ cvOwner = "none"
    /\ isRunning = TRUE
    /\ pcD = "loop"
    /\ stage = 0
    /\ cur = NotAReq
    /\ dRef = 0
    /\ handled = 0
    /\ pcP = [p \in Producers |-> "idle"]
    /\ pReq = [p \in Producers |-> NotAReq]
    /\ enqueued = <<>>
    /\ pubLog = <<>>
    /\ received = [s \in Subscribers |-> <<>>]
    /\ tmccFwd = <<>>

\* PdiListener.__init__, lines 99-101, with nothing offered by the transport
ListenerIdle ==
    /\ deque = <<>>
    /\ lsnRunning = TRUE
    /\ pcL = "top"
    /\ dqLen = 0
    /\ eopPos = 0
    /\ popLeft = 0
    /\ reqBytes = <<>>
    /\ toOffer = <<>>
    /\ emitted = <<>>
    /\ rejected = 0

CallersIdle ==
    /\ pcC = [t \in Callers |-> "idle"]
    /\ cArg = [t \in Callers |-> <<"s1", ScopeKey>>]
    /\ cRef = [t \in Callers |-> 0]

\* line 245 with no proxy receiver built: _client_port is None
RelayOff ==
    /\ proxyBuilt = FALSE
    /\ clientPort = FALSE
    /\ clients = {}
    /\ curClients = <<>>
    /\ relayTodo = <<>>
    /\ relayLog = <<>>

\* the registry as seen from outside: the subscribers of every registered
\* topic, and broadcasts_enabled
RegistryView ==
    [subs |-> [topic \in {x \in Topics : HasChannel(x)} |-> SubsOf(topic)],
     flag |-> broadcasts]

NoCall == [op |-> "none", s |-> "s1", topic |-> ScopeKey, repeat |-> FALSE,
           before |-> [subs |-> <<>>, flag |-> FALSE]]

HistInit ==
    /\ shutIdx = -1
    /\ callHist = NoCall
    /\ subscribedH = {}

\* no constructor call in progress or to come
LifeIdle ==
    /\ dInstance = 0
    /\ dObj = <<>>
    /\ lInstance = 0
    /\ lObj = <<>>
    /\ pcB = [b \in Callers |-> "idle"]
    /\ bNested = [b \in Callers |-> FALSE]
    /\ bSelfD = [b \in Callers |-> 0]
    /\ bSelfL = [b \in Callers |-> 0]
    /\ bRet = <<>>
    /\ buildsLeft = 0
    /\ shutCalls = 0

\* no encode / decode round in progress
NotDecoded == [ok |-> FALSE, kind |-> "none", data |-> <<>>]

CodecIdle ==
    /\ cBody = <<>>
    /\ cStuffed = <<>>
    /\ cDestuffed = <<>>
    /\ cFrame = <<>>
    /\ cSent = <<>>
    /\ cBack = NotDecoded
    /\ pcX = "idle"

\* CommandScope, the keys of the state store
CommandScopes == {"ENGINE", "TRAIN", "SWITCH", "ACC", "ROUTE", "SYSTEM"}

\* a key that is not in the dict
NoState == [cls |-> "absent"]

\* no command: _last_command = None
NoCommand == [command |-> "None", address |-> None, data |-> None]

\* ComponentStateDict.__init__, lines 150-153: an empty dict
StoreIdle ==
    /\ states = [k \in CommandScopes |-> NoState]
    /\ lastGet = [key |-> "none", out |-> "none"]
    /\ clock = 0
    /\ prev = NoState
    /\ lastCmd = NoCommand

\* no apply_data call made or to be made
NoOption == [name |-> "none", command_op |-> 0, d_min |-> 0, d_max |-> 0,
             d_map |-> FALSE]

EncIdle ==
    /\ eOpt = NoOption
    /\ eData = 0
    /\ eOut = [ok |-> FALSE, word |-> 0]
    /\ pcE = "idle"
    /\ eBack = {}

\* no connection to the proxy receiver is ever made
ProxyIdle ==
    /\ hIn = <<>>
    /\ hData = <<>>
    /\ hStream = <<>>
    /\ hAcks = 0
    /\ hClient = "none"
    /\ pcH = "idle"
    /\ connsLeft = 0
    /\ txQueue = <<>>
    /\ hDone = <<>>

\* nobody calls PdiListener.shutdown()
StopIdle == pcS = "none"

\* nothing raises
FaultIdle == raised = {}

ExtIdle == ProxyIdle /\ StopIdle /\ FaultIdle

LibIdle == CodecIdle /\ StoreIdle /\ EncIdle /\ ExtIdle

DispInit ==
    /\ DispInitCommon
    /\ offersLeft = MaxOffers
    /\ reqPool = Reqs
    /\ \E calls \in SubscribePresets :
          LET reg == SubscribeAll(calls, EmptyRegistry)
          IN /\ channels = reg.channels
             /\ chanSubs = reg.chanSubs
             /\ broadcasts = (reg.channels[BROADCAST_TOPIC] # 0)
    /\ CallersIdle
    /\ callsLeft = 0
    /\ ListenerIdle
    /\ RelayOff
    /\ HistInit
    /\ LibIdle
    /\ LifeIdle

DispNext ==
    \/ \E p \in Producers : OfferBegin(p)
    \/ \E p \in Producers : OfferLock(p)
    \/ \E p \in Producers : OfferPut(p)
    \/ DLoop
    \/ DLock
    \/ DWake
    \/ DCheck
    \/ DRoute
    \/ DPubIn
    \/ DPubGet
    \/ DPubCall
    \/ DBflag
    \/ DRelay
    \/ DFinish
    \/ DShutdown

DispSpec == DispInit /\ [][DispNext]_vars

(***************************************************************************)
(* Caller threads: PdiDispatcher.subscribe, unsubscribe, subscribe_any and *)
(* unsubscribe_any, src/pdi/pdi_listener.py:332-364.  None of them takes a *)
(* lock, so each statement is split where another thread can run: the      *)
(* defaultdict lookup, the construction of a missing Channel, the call on  *)
(* the Channel, the emptiness test, the del, the write of _broadcasts.     *)
(***************************************************************************)
\* (address, action) arguments used by the callers
CallAddrs == {<<1, None>>}

\* the requests offered while the callers work on the registry
RegReqs == {[kind |-> "lcs", id |-> 1, action |-> 1, seq |-> 0], TmccReq}

CSub(t) == cArg[t][1]

CTopic(t) == cArg[t][2]

\* lines 337-340, 347-350: a call is routed on channel == BROADCAST_TOPIC
CallBegin(t) ==
    /\ pcC[t] = "idle"
    /\ callsLeft > 0
    /\ callsLeft' = callsLeft - 1
    /\ \E op \in {"subscribe", "unsubscribe"}, s \in Subscribers,
          bc \in BOOLEAN, a \in CallAddrs :
          /\ cArg' = [cArg EXCEPT ![t] =
                 <<s, IF bc THEN BROADCAST_TOPIC ELSE _make_channel(a[1], a[2])>>]
          /\ pcC' = [pcC EXCEPT ![t] =
                 IF op = "subscribe"
                 THEN (IF bc THEN "any_get" ELSE "sub_get")
                 ELSE (IF bc THEN "unany_get" ELSE "uns_get")]
          /\ LET topic == IF bc THEN BROADCAST_TOPIC
                          ELSE _make_channel(a[1], a[2])
             IN /\ callHist' = [op |-> op, s |-> s, topic |-> topic,
                                repeat |-> /\ callHist.op = op
                                           /\ callHist.s = s
                                           /\ callHist.topic = topic,
                                before |-> RegistryView]
                /\ subscribedH' = IF op = "unsubscribe"
                                  THEN subscribedH \ {<<s, topic>>}
                                  ELSE subscribedH
    /\ UNCHANGED <<cRef, shutIdx, dispVars, regVars, lsnVars, relayVars,
                   lifeVars, libVars>>

\* the position after the defaultdict lookup returned a Channel
AfterGet(pc) ==
    CASE pc \in {"sub_get", "sub_new"} -> "sub_add"
      [] pc \in {"any_get", "any_new"} -> "any_add"
      [] pc \in {"uns_get", "uns_new"} -> "uns_rm"
      [] pc \in {"unany_get", "unany_new"} -> "unany_rm"
      [] pc \in {"uns_len", "uns_len_new"} -> "uns_del"
      [] pc \in {"unany_len", "unany_len_new"} -> "unany_flag"

\* the position when the lookup misses and the default factory runs (a
\* plain dict would raise KeyError instead)
OnMissRaises(pc) == "raised"

OnMiss(pc) ==
    CASE pc = "sub_get" -> "sub_new"
      [] pc = "any_get" -> "any_new"
      [] pc = "uns_get" -> "uns_new"
      [] pc = "unany_get" -> "unany_new"
      [] pc = "uns_len" -> "uns_len_new"
      [] pc = "unany_len" -> "unany_len_new"

\* lines 340, 351, 357, 362: self._channels[key], the key is present or not
CGet(t) ==
    /\ pcC[t] \in {"sub_get", "any_get", "uns_get", "unany_get"}
    /\ IF HasChannel(CTopic(t))
       THEN /\ cRef' = [cRef EXCEPT ![t] = channels[CTopic(t)]]
            /\ pcC' = [pcC EXCEPT ![t] = AfterGet(pcC[t])]
       ELSE /\ pcC' = [pcC EXCEPT ![t] = OnMiss(pcC[t])]
            /\ UNCHANGED cRef
    /\ UNCHANGED <<cArg, callsLeft, dispVars, regVars, lsnVars, relayVars,
                   histVars, lifeVars, libVars>>

\* the default factory built a Channel; it is installed under the key
CNew(t) ==
    /\ pcC[t] \in {"sub_new", "any_new", "uns_new", "unany_new"}
    /\ CanCreate
    /\ InstallNew(CTopic(t))
    /\ cRef' = [cRef EXCEPT ![t] = Len(chanSubs) + 1]
    /\ pcC' = [pcC EXCEPT ![t] = AfterGet(pcC[t])]
    /\ UNCHANGED <<cArg, callsLeft, dispVars, lsnVars, relayVars,
                   histVars, lifeVars, libVars>>

\* history: the subscribe call of thread t returns; it counts as standing
\* unless an unsubscribe call naming the same subscriber and topic is
\* running
Returned(t) ==
    IF \E u \in Callers :
          /\ pcC[u] \in {"uns_get", "uns_new", "uns_rm", "uns_len",
                         "uns_len_new", "uns_del", "unany_get", "unany_new",
                         "unany_rm", "unany_len", "unany_len_new",
                         "unany_flag"}
          /\ cArg[u] = cArg[t]
    THEN subscribedH
    ELSE subscribedH \cup {cArg[t]}

\* lines 340, 357: .subscribe(subscriber) on the Channel looked up
CSubscribe(t) ==
    /\ pcC[t] \in {"sub_add", "any_add"}
    /\ ChannelSubscribe(cRef[t], CSub(t))
    /\ pcC' = [pcC EXCEPT ![t] = IF pcC[t] = "sub_add" THEN "idle"
                                  ELSE "any_flag"]
    /\ cRef' = [cRef EXCEPT ![t] = 0]
    /\ subscribedH' = IF pcC[t] = "sub_add" THEN Returned(t) ELSE subscribedH
    /\ UNCHANGED <<shutIdx, callHist>>
    /\ UNCHANGED <<cArg, callsLeft, channels, dispVars, lsnVars, relayVars,
                   lifeVars, libVars>>

\* lines 351, 362: .unsubscribe(subscriber) on the Channel looked up
CUnsubscribe(t) ==
    /\ pcC[t] \in {"uns_rm", "unany_rm"}
    /\ ChannelUnsubscribe(cRef[t], CSub(t))
    /\ pcC' = [pcC EXCEPT ![t] = IF pcC[t] = "uns_rm" THEN "uns_len"
                                  ELSE "unany_len"]
    /\ cRef' = [cRef EXCEPT ![t] = 0]
    /\ UNCHANGED <<cArg, callsLeft, channels, dispVars, lsnVars, relayVars,
                   histVars, lifeVars, libVars>>

\* lines 352, 363: the emptiness test on self._channels[key].subscribers
CLen(t) ==
    /\ pcC[t] \in {"uns_len", "unany_len"}
    /\ pcC' = [pcC EXCEPT ![t] =
           IF HasChannel(CTopic(t))
           THEN (IF chanSubs[channels[CTopic(t)]] = {}
                 THEN AfterGet(pcC[t]) ELSE "idle")
           ELSE OnMiss(pcC[t])]
    /\ UNCHANGED <<cArg, cRef, callsLeft, dispVars, regVars, lsnVars, relayVars,
                   histVars, lifeVars, libVars>>

\* lines 352, 363: the test's lookup missed; the new Channel is empty
CLenNew(t) ==
    /\ pcC[t] \in {"uns_len_new", "unany_len_new"}
    /\ CanCreate
    /\ InstallNew(CTopic(t))
    /\ pcC' = [pcC EXCEPT ![t] = AfterGet(pcC[t])]
    /\ UNCHANGED <<cArg, cRef, callsLeft, dispVars, lsnVars, relayVars,
                   histVars, lifeVars, libVars>>

\* line 353: del self._channels[channel] (KeyError when the key is gone)
CDel(t) ==
    /\ pcC[t] = "uns_del"
    /\ channels' = [channels EXCEPT ![CTopic(t)] = 0]
    /\ pcC' = [pcC EXCEPT ![t] = "idle"]
    /\ UNCHANGED <<cArg, cRef, callsLeft, chanSubs, dispVars, lsnVars, relayVars,
                   histVars, lifeVars, libVars>>

\* line 358: self._broadcasts = True
CFlagOn(t) ==
    /\ pcC[t] = "any_flag"
    /\ broadcasts' = TRUE
    /\ pcC' = [pcC EXCEPT ![t] = "idle"]
    /\ subscribedH' = Returned(t)
    /\ UNCHANGED <<shutIdx, callHist>>
    /\ UNCHANGED <<queue, cvOwner, isRunning, pcD, stage, cur, dRef, handled,
                   pcP, pReq, offersLeft, reqPool, enqueued, pubLog, received,
                   tmccFwd>>
    /\ UNCHANGED <<cArg, cRef, callsLeft, regVars, lsnVars, relayVars,
                   lifeVars, libVars>>

\* line 364: self._broadcasts = False
CFlagOff(t) ==
    /\ pcC[t] = "unany_flag"
    /\ broadcasts' = FALSE
    /\ pcC' = [pcC EXCEPT ![t] = "idle"]
    /\ UNCHANGED <<queue, cvOwner, isRunning, pcD, stage, cur, dRef, handled,
                   pcP, pReq, offersLeft, reqPool, enqueued, pubLog, received,
                   tmccFwd>>
    /\ UNCHANGED <<cArg, cRef, callsLeft, regVars, lsnVars, relayVars,
                   histVars, lifeVars, libVars>>

(***************************************************************************)
(* RegSpec: the registry as built by __init__, callers and dispatcher      *)
(* running concurrently.                                                   *)
(***************************************************************************)
RegInit ==
    /\ DispInitCommon
    /\ offersLeft = MaxRegOffers
    /\ reqPool = RegReqs
    /\ channels = EmptyRegistry.channels
    /\ chanSubs = EmptyRegistry.chanSubs
    /\ broadcasts = FALSE
    /\ CallersIdle
    /\ callsLeft = MaxCalls
    /\ ListenerIdle
    /\ RelayOff
    /\ HistInit
    /\ LibIdle
    /\ LifeIdle

RegNext ==
    \/ \E p \in Producers : OfferBegin(p)
    \/ \E p \in Producers : OfferLock(p)
    \/ \E p \in Producers : OfferPut(p)
    \/ DLoop
    \/ DLock
    \/ DWake
    \/ DCheck
    \/ DRoute
    \/ DPubIn
    \/ DPubGet
    \/ DPubNew
    \/ DPubCall
    \/ DBflag
    \/ DRelay
    \/ DFinish
    \/ \E t \in Callers : CallBegin(t)
    \/ \E t \in Callers : CGet(t)
    \/ \E t \in Callers : CNew(t)
    \/ \E t \in Callers : CSubscribe(t)
    \/ \E t \in Callers : CUnsubscribe(t)
    \/ \E t \in Callers : CLen(t)
    \/ \E t \in Callers : CLenNew(t)
    \/ \E t \in Callers : CDel(t)
    \/ \E t \in Callers : CFlagOn(t)
    \/ \E t \in Callers : CFlagOff(t)

RegSpec == RegInit /\ [][RegNext]_vars

(***************************************************************************)
(* SeqSpec: registry calls made one after the other (a call begins only    *)
(* when every earlier call has returned), on a registry that already has   *)
(* subscribers; requests are offered once the calls are over.              *)
(***************************************************************************)
\* number of registry calls in SeqSpec
MaxSeqCalls == 3
\* number of offer() calls in SeqSpec
MaxSeqOffers == 1

AllCallsReturned == \A t \in Callers : pcC[t] = "idle"

SeqCallBegin(t) == AllCallsReturned /\ CallBegin(t)

SeqOfferBegin(p) == AllCallsReturned /\ callsLeft = 0 /\ OfferBegin(p)

SeqInit ==
    /\ DispInitCommon
    /\ offersLeft = MaxSeqOffers
    /\ reqPool = RegReqs
    /\ \E calls \in SubscribePresets :
          LET reg == SubscribeAll(calls, EmptyRegistry)
          IN /\ channels = reg.channels
             /\ chanSubs = reg.chanSubs
             /\ broadcasts = (reg.channels[BROADCAST_TOPIC] # 0)
    /\ CallersIdle
    /\ callsLeft = MaxSeqCalls
    /\ ListenerIdle
    /\ RelayOff
    /\ HistInit
    /\ LibIdle
    /\ LifeIdle

SeqNext ==
    \/ \E p \in Producers : SeqOfferBegin(p)
    \/ \E p \in Producers : OfferLock(p)
    \/ \E p \in Producers : OfferPut(p)
    \/ DLoop
    \/ DLock
    \/ DWake
    \/ DCheck
    \/ DRoute
    \/ DPubIn
    \/ DPubGet
    \/ DPubCall
    \/ DBflag
    \/ DRelay
    \/ DFinish
    \/ \E t \in Callers : SeqCallBegin(t)
    \/ \E t \in Callers : CGet(t)
    \/ \E t \in Callers : CNew(t)
    \/ \E t \in Callers : CSubscribe(t)
    \/ \E t \in Callers : CUnsubscribe(t)
    \/ \E t \in Callers : CLen(t)
    \/ \E t \in Callers : CDel(t)
    \/ \E t \in Callers : CFlagOn(t)
    \/ \E t \in Callers : CFlagOff(t)

SeqSpec == SeqInit /\ [][SeqNext]_vars

(***************************************************************************)
(* Properties of RegSpec                                                   *)
(***************************************************************************)
RegisteredTopics == {topic \in Topics : HasChannel(topic)}

\* C8: publish never changes the set of registered topics (a topic enters
\* the registry only through subscribe), whatever the other threads do
\* between its statements.
C8_PublishNeverCreatesTopic ==
    [][(DPubIn \/ DPubGet \/ DPubNew \/ DPubCall)
          => RegisteredTopics' = RegisteredTopics]_vars

\* C9: once every subscribe / unsubscribe / subscribe_any /
\* unsubscribe_any call has returned, every topic present in the registry,
\* the broadcast topic included, has at least one subscriber.
C9_NoEmptyTopic ==
    AllCallsReturned =>
        \A topic \in RegisteredTopics : SubsOf(topic) # {}

\* C10: once every call has returned, broadcasts_enabled is true exactly
\* when the broadcast topic has at least one subscriber.
C10_BroadcastFlagExact ==
    AllCallsReturned => (broadcasts <=> SubsOf(BROADCAST_TOPIC) # {})

\* C12: no update is lost: once every call has returned, a subscriber whose
\* subscribe call on a topic returned, and whom no unsubscribe call has
\* named since, is in the subscriber set of that topic.
C12_NoLostSubscriber ==
    AllCallsReturned =>
        \A e \in subscribedH : e[1] \in SubsOf(e[2])

(***************************************************************************)
(* Properties of SeqSpec                                                   *)
(***************************************************************************)
\* number of deliveries of request i to subscriber s on a topic
Deliveries(s, i, topic) ==
    Cardinality({j \in 1..Len(received[s]) : received[s][j] = <<i, topic>>})

\* C11: subscribe and unsubscribe are idempotent: when a call repeats the
\* call made just before it (same operation, subscriber and topic), the
\* registry after it is the registry it started from, i.e. the one the
\* first call left; no call raises; a subscriber gets a published request
\* at most once per topic, however often it subscribed.
C11_Idempotent ==
    /\ \A t \in Callers : pcC[t] # "raised"
    /\ (AllCallsReturned /\ callHist.repeat) => RegistryView = callHist.before
    /\ \A sub \in Subscribers : \A topic \in Topics :
          \A i \in 1..Len(enqueued) : Deliveries(sub, i, topic) <= 1

\* subscribe(s, (SYSTEM, 1)) twice, then a request for device 1 is handled
C11_Witness ==
    /\ AllCallsReturned
    /\ callHist.repeat
    /\ callHist.op = "subscribe"
    /\ callHist.topic = AddrKey(1)
    /\ handled = 1
    /\ Deliveries(callHist.s, 1, AddrKey(1)) = 1

(***************************************************************************)
(* Properties of DispSpec                                                  *)
(***************************************************************************)
IsPrefix(a, b) == Len(a) <= Len(b) /\ \A j \in 1..Len(a) : a[j] = b[j]

\* ranks, in increasing order, of the first n enqueued requests that are
\* published on the scoped topics
ScopedIdxs(n) ==
    SelectSeq([i \in 1..n |-> i], LAMBDA i : ~IsTmccReq(enqueued[i]))

\* what subscriber s received on a topic, as request ranks
GotOn(s, topic) ==
    LET got == SelectSeq(received[s], LAMBDA e : e[2] = topic)
    IN [j \in 1..Len(got) |-> got[j][1]]

\* the topics on which request i was published, in order
PublishedOn(i) ==
    LET mine == SelectSeq(pubLog, LAMBDA e : e[1] = i)
    IN [j \in 1..Len(mine) |-> mine[j][2]]

\* C1: a producer blocked in put() on a full queue (it holds the condition
\* lock) never faces a dispatcher thread that is itself blocked on that
\* lock: offer never deadlocks with the consumer thread.
C1_OfferNeverDeadlocks ==
    \A p \in Producers :
        ~(/\ pcP[p] = "put"
          /\ Len(queue) = QueueSize
          /\ isRunning
          /\ pcD \in {"lock", "wakeup"})

ExpectedTopics(cmd) ==
    << ActionKey(cmd.id, cmd.action), AddrKey(cmd.id), ScopeKey >>
       \o (IF broadcasts THEN << BROADCAST_TOPIC >> ELSE << >>)

MaxRelayOffers == 2

Clients == {"c1", "c2"}

\* EnqueueProxyRequests.build(), enqueue_proxy_requests.py:97-106
ProxyBuild ==
    /\ ~proxyBuilt
    /\ proxyBuilt' = TRUE
    /\ UNCHANGED <<clientPort, clients, curClients, relayTodo, relayLog>>
    /\ UNCHANGED <<dispVars, regVars, callVars, lsnVars, histVars, lifeVars, libVars>>

\* EnqueueProxyRequests.note_client_addr, enqueue_proxy_requests.py:30-37
NoteClient(c) ==
    /\ clients' = IF proxyBuilt THEN clients \cup {c} ELSE clients
    /\ UNCHANGED <<proxyBuilt, clientPort, curClients, relayTodo, relayLog>>
    /\ UNCHANGED <<dispVars, regVars, callVars, lsnVars, histVars, lifeVars, libVars>>

\* the subscribe calls made before the traffic starts
RelayPreset ==
    << <<"s1", ScopeKey>>, <<"s1", BROADCAST_TOPIC>>, <<"s2", ScopeKey>> >>

RelayInit ==
    /\ DispInitCommon
    /\ offersLeft = MaxRelayOffers
    /\ reqPool = RegReqs
    /\ LET reg == SubscribeAll(RelayPreset, EmptyRegistry)
       IN /\ channels = reg.channels
          /\ chanSubs = reg.chanSubs
          /\ broadcasts = (reg.channels[BROADCAST_TOPIC] # 0)
    /\ CallersIdle
    /\ callsLeft = 0
    /\ ListenerIdle
    /\ proxyBuilt \in BOOLEAN
    \* line 245, evaluated by PdiDispatcher.__init__
    /\ clientPort = proxyBuilt
    /\ clients = {}
    /\ curClients = <<>>
    /\ relayTodo = <<>>
    /\ relayLog = <<>>
    /\ HistInit
    /\ LibIdle
    /\ LifeIdle

\* the steps of the dispatcher thread
DispThread ==
    \/ DLoop
    \/ DLock
    \/ DWake
    \/ DCheck
    \/ DRoute
    \/ DPubIn
    \/ DPubGet
    \/ DPubCall
    \/ DBflag
    \/ DRelay
    \/ DSend
    \/ DFinish

RelayNext ==
    \/ \E p \in Producers : OfferBegin(p)
    \/ \E p \in Producers : OfferLock(p)
    \/ \E p \in Producers : OfferPut(p)
    \/ DLoop
    \/ DLock
    \/ DWake
    \/ DCheck
    \/ DRoute
    \/ DPubIn
    \/ DPubGet
    \/ DPubCall
    \/ DBflag
    \/ DRelay
    \/ DSend
    \/ DFinish
    \/ DShutdown
    \/ ProxyBuild
    \/ \E c \in Clients : NoteClient(c)

RelaySpec == RelayInit /\ [][RelayNext]_vars

\* the scheduler lets the dispatcher thread and the producers run
RelayFairSpec ==
    /\ RelaySpec
    /\ WF_vars(DispThread)
    /\ WF_vars(\E p \in Producers : OfferLock(p) \/ OfferPut(p))

(***************************************************************************)
(* Properties of RelaySpec                                                 *)
(***************************************************************************)
\* every topic run() publishes a request on, in order
ExpectedAll(cmd) ==
    (IF IsTmccReq(cmd) THEN << >>
     ELSE << ActionKey(cmd.id, cmd.action), AddrKey(cmd.id), ScopeKey >>)
       \o (IF broadcasts THEN << BROADCAST_TOPIC >> ELSE << >>)

\* the clients a send of request i was attempted to
RelayedTo(i) == {relayLog[j][2] : j \in {k \in DOMAIN relayLog :
                                             relayLog[k][1] = i}}

\* C15: once shutdown() has cleared the running flag and notified, the
\* dispatcher thread eventually leaves run().
C15_ShutdownExits == (~isRunning) ~> (pcD = "done")

C17_SendFailureSwallowed ==
    /\ \A j \in DOMAIN curClients :
          (j <= handled /\ clientPort) =>
              curClients[j][2] \subseteq RelayedTo(curClients[j][1])
    /\ \A k \in DOMAIN relayLog :
          /\ PublishedOn(relayLog[k][1]) = ExpectedAll(enqueued[relayLog[k][1]])
          /\ \A sub \in SubsOf(BROADCAST_TOPIC) :
                Deliveries(sub, relayLog[k][1], BROADCAST_TOPIC) = 1

\* the first client refuses request 1, the second client still gets it, and
\* request 2 is handled afterwards
C17_Witness ==
    /\ handled = 2
    /\ Len(relayLog) = 4
    /\ relayLog[1][1] = 1 /\ relayLog[1][3] = "refused"
    /\ relayLog[2][1] = 1 /\ relayLog[2][3] = "ok"
    /\ relayLog[3][1] = 2 /\ relayLog[4][1] = 2

\* C18: every handled request was relayed to every client that was
\* registered when it was dequeued, whether the proxy receiver was built
\* before the dispatcher or after it.
C18_RelayedWheneverRegistered ==
    \A j \in DOMAIN curClients :
        j <= handled => curClients[j][2] \subseteq RelayedTo(curClients[j][1])

(***************************************************************************)
(* Construction and shutdown of the singletons,                            *)
(* src/pdi/pdi_listener.py:69-105, 150-171, 222-246, 309-313.              *)
(* EnqueueProxyRequests.__new__ / __init__                                 *)
(* (src/comm/enqueue_proxy_requests.py:83-106) are the same code as        *)
(* PdiDispatcher.__new__ / __init__.  Objects are numbered in the order    *)
(* they are allocated; threads is the number of run() threads of the       *)
(* object that were started and have not returned.                         *)
(***************************************************************************)
\* constructor calls made in LifeSpec
MaxBuilds == 3
\* stop() / shutdown() calls made in LifeSpec
MaxShutdowns == 2

\* super().__new__(cls), with _initialized = False (lines 76-77, 229-230)
NewDispatcher == [initialized |-> FALSE, inits |-> 0, running |-> FALSE,
                  threads |-> 0]

NewListener == [initialized |-> FALSE, inits |-> 0, running |-> FALSE,
                threads |-> 0, disp |-> 0]

\* PdiDispatcher.build() / PdiListener.build(): the constructor is called
BuildBegin(b) ==
    /\ pcB[b] = "idle"
    /\ buildsLeft > 0
    /\ buildsLeft' = buildsLeft - 1
    /\ \E first \in {"d_new", "l_new"} : pcB' = [pcB EXCEPT ![b] = first]
    /\ bNested' = [bNested EXCEPT ![b] = FALSE]
    /\ UNCHANGED <<dInstance, dObj, lInstance, lObj, bSelfD, bSelfL, bRet,
                   shutCalls>>
    /\ UNCHANGED <<dispVars, regVars, callVars, lsnVars, relayVars, histVars, libVars>>

\* the constructor call of thread b returns object obj of class cls
ReturnFrom(b, cls, obj) ==
    /\ bRet' = Append(bRet, <<cls, obj>>)
    /\ pcB' = [pcB EXCEPT ![b] = "idle"]

\* PdiDispatcher.__new__, lines 227-231, under the class lock
DNew(b) ==
    /\ pcB[b] = "d_new"
    /\ IF dInstance = 0
       THEN /\ dObj' = Append(dObj, NewDispatcher)
            /\ dInstance' = Len(dObj) + 1
            /\ bSelfD' = [bSelfD EXCEPT ![b] = Len(dObj) + 1]
       ELSE /\ bSelfD' = [bSelfD EXCEPT ![b] = dInstance]
            /\ UNCHANGED <<dObj, dInstance>>
    /\ pcB' = [pcB EXCEPT ![b] = "d_test"]
    /\ UNCHANGED <<lInstance, lObj, bNested, bSelfL, bRet, buildsLeft,
                   shutCalls>>
    /\ UNCHANGED <<dispVars, regVars, callVars, lsnVars, relayVars, histVars, libVars>>

\* where the dispatcher constructor returns to: its caller, or line 102 of
\* PdiListener.__init__
DReturn(b) ==
    IF bNested[b]
    THEN /\ pcB' = [pcB EXCEPT ![b] = "l_start"]
         /\ UNCHANGED bRet
    ELSE ReturnFrom(b, "dispatcher", bSelfD[b])

\* PdiDispatcher.__init__, lines 234-235: if self._initialized: return
DInitTest(b) ==
    /\ pcB[b] = "d_test"
    /\ IF dObj[bSelfD[b]].initialized
       THEN DReturn(b)
       ELSE /\ pcB' = [pcB EXCEPT ![b] = "d_set"]
            /\ UNCHANGED bRet
    /\ UNCHANGED <<dInstance, dObj, lInstance, lObj, bNested, bSelfD, bSelfL,
                   buildsLeft, shutCalls>>
    /\ UNCHANGED <<dispVars, regVars, callVars, lsnVars, relayVars, histVars, libVars>>

\* line 237: self._initialized = True
DInitSet(b) ==
    /\ pcB[b] = "d_set"
    /\ dObj' = [dObj EXCEPT ![bSelfD[b]].initialized = TRUE]
    /\ pcB' = [pcB EXCEPT ![b] = "d_body"]
    /\ UNCHANGED <<dInstance, lInstance, lObj, bNested, bSelfD, bSelfL, bRet,
                   buildsLeft, shutCalls>>
    /\ UNCHANGED <<dispVars, regVars, callVars, lsnVars, relayVars, histVars, libVars>>

\* lines 238-246: the state is set up and the consumer thread is started
DInitBody(b) ==
    /\ pcB[b] = "d_body"
    /\ dObj' = [dObj EXCEPT ![bSelfD[b]] =
                   [@ EXCEPT !.inits = @ + 1, !.running = TRUE,
                             !.threads = @ + 1]]
    /\ DReturn(b)
    /\ UNCHANGED <<dInstance, lInstance, lObj, bNested, bSelfD, bSelfL,
                   buildsLeft, shutCalls>>
    /\ UNCHANGED <<dispVars, regVars, callVars, lsnVars, relayVars, histVars, libVars>>

\* PdiListener.__new__, lines 74-78, under the class lock
LNew(b) ==
    /\ pcB[b] = "l_new"
    /\ IF lInstance = 0
       THEN /\ lObj' = Append(lObj, NewListener)
            /\ lInstance' = Len(lObj) + 1
            /\ bSelfL' = [bSelfL EXCEPT ![b] = Len(lObj) + 1]
       ELSE /\ bSelfL' = [bSelfL EXCEPT ![b] = lInstance]
            /\ UNCHANGED <<lObj, lInstance>>
    /\ pcB' = [pcB EXCEPT ![b] = "l_test"]
    /\ UNCHANGED <<dInstance, dObj, bNested, bSelfD, bRet, buildsLeft,
                   shutCalls>>
    /\ UNCHANGED <<dispVars, regVars, callVars, lsnVars, relayVars, histVars, libVars>>

\* PdiListener.__init__, lines 84-85
LInitTest(b) ==
    /\ pcB[b] = "l_test"
    /\ IF lObj[bSelfL[b]].initialized
       THEN ReturnFrom(b, "listener", bSelfL[b])
       ELSE /\ pcB' = [pcB EXCEPT ![b] = "l_set"]
            /\ UNCHANGED bRet
    /\ UNCHANGED <<dInstance, dObj, lInstance, lObj, bNested, bSelfD, bSelfL,
                   buildsLeft, shutCalls>>
    /\ UNCHANGED <<dispVars, regVars, callVars, lsnVars, relayVars, histVars, libVars>>

\* line 87
LInitSet(b) ==
    /\ pcB[b] = "l_set"
    /\ lObj' = [lObj EXCEPT ![bSelfL[b]].initialized = TRUE]
    /\ pcB' = [pcB EXCEPT ![b] = "l_body"]
    /\ UNCHANGED <<dInstance, dObj, lInstance, bNested, bSelfD, bSelfL, bRet,
                   buildsLeft, shutCalls>>
    /\ UNCHANGED <<dispVars, regVars, callVars, lsnVars, relayVars, histVars, libVars>>

\* lines 88-102: the state is set up, then PdiDispatcher.build() is called
LInitBody(b) ==
    /\ pcB[b] = "l_body"
    /\ lObj' = [lObj EXCEPT ![bSelfL[b]] =
                   [@ EXCEPT !.inits = @ + 1, !.running = TRUE]]
    /\ bNested' = [bNested EXCEPT ![b] = TRUE]
    /\ pcB' = [pcB EXCEPT ![b] = "d_new"]
    /\ UNCHANGED <<dInstance, dObj, lInstance, bSelfD, bSelfL, bRet,
                   buildsLeft, shutCalls>>
    /\ UNCHANGED <<dispVars, regVars, callVars, lsnVars, relayVars, histVars, libVars>>

\* lines 102, 105: self._dispatcher is assigned, the listener thread started
LStart(b) ==
    /\ pcB[b] = "l_start"
    /\ lObj' = [lObj EXCEPT ![bSelfL[b]] =
                   [@ EXCEPT !.disp = bSelfD[b], !.threads = @ + 1]]
    /\ bNested' = [bNested EXCEPT ![b] = FALSE]
    /\ ReturnFrom(b, "listener", bSelfL[b])
    /\ UNCHANGED <<dInstance, dObj, lInstance, bSelfD, bSelfL, buildsLeft,
                   shutCalls>>
    /\ UNCHANGED <<dispVars, regVars, callVars, lsnVars, relayVars, histVars, libVars>>

\* PdiDispatcher.shutdown() on object d, lines 309-313: the objects after
\* it; on an object whose __init__ body has not run, self._cv raises
\* AttributeError and nothing is changed
DispatcherStopped(objs, d) ==
    IF objs[d].inits = 0 THEN objs ELSE [objs EXCEPT ![d].running = FALSE]

\* PdiDispatcher._instance after shutdown() on object d
InstanceAfterShutdown(d) == IF dObj[d].inits = 0 THEN dInstance ELSE 0

\* PdiDispatcher.shutdown() called through the class-level reference
DShutdownCall ==
    /\ shutCalls > 0
    /\ dInstance # 0
    /\ dObj[dInstance].inits > 0
    /\ shutCalls' = shutCalls - 1
    /\ dObj' = DispatcherStopped(dObj, dInstance)
    /\ dInstance' = 0
    /\ UNCHANGED <<lInstance, lObj, pcB, bNested, bSelfD, bSelfL, bRet,
                   buildsLeft>>
    /\ UNCHANGED <<dispVars, regVars, callVars, lsnVars, relayVars, histVars, libVars>>

\* PdiListener.stop() -> shutdown(), lines 64-67, 160-171: the listener
\* flag, its dispatcher's shutdown(), PdiListener._instance = None
LShutdownCall ==
    /\ shutCalls > 0
    /\ lInstance # 0
    /\ shutCalls' = shutCalls - 1
    /\ lObj' = IF lObj[lInstance].inits > 0
               THEN [lObj EXCEPT ![lInstance].running = FALSE]
               ELSE lObj
    /\ IF lObj[lInstance].disp # 0
       THEN /\ dObj' = DispatcherStopped(dObj, lObj[lInstance].disp)
            /\ dInstance' = InstanceAfterShutdown(lObj[lInstance].disp)
       ELSE UNCHANGED <<dObj, dInstance>>
    /\ lInstance' = IF /\ lObj[lInstance].disp # 0
                       /\ dObj[lObj[lInstance].disp].inits = 0
                    THEN lInstance ELSE 0
    /\ UNCHANGED <<pcB, bNested, bSelfD, bSelfL, bRet, buildsLeft>>
    /\ UNCHANGED <<dispVars, regVars, callVars, lsnVars, relayVars, histVars, libVars>>

\* PdiListener.run leaves its loop (line 112) and shuts its own dispatcher
\* down, lines 150-152
LThreadExit(l) ==
    /\ lObj[l].threads > 0
    /\ ~lObj[l].running
    /\ lObj' = [lObj EXCEPT ![l].threads = @ - 1]
    /\ IF lObj[l].disp # 0
       THEN /\ dObj' = DispatcherStopped(dObj, lObj[l].disp)
            /\ dInstance' = InstanceAfterShutdown(lObj[l].disp)
       ELSE UNCHANGED <<dObj, dInstance>>
    /\ UNCHANGED <<lInstance, pcB, bNested, bSelfD, bSelfL, bRet, buildsLeft,
                   shutCalls>>
    /\ UNCHANGED <<dispVars, regVars, callVars, lsnVars, relayVars, histVars, libVars>>

\* PdiDispatcher.run leaves its loop, line 253
DThreadExit(d) ==
    /\ dObj[d].threads > 0
    /\ ~dObj[d].running
    /\ dObj' = [dObj EXCEPT ![d].threads = @ - 1]
    /\ UNCHANGED <<dInstance, lInstance, lObj, pcB, bNested, bSelfD, bSelfL,
                   bRet, buildsLeft, shutCalls>>
    /\ UNCHANGED <<dispVars, regVars, callVars, lsnVars, relayVars, histVars, libVars>>

LifeInit ==
    /\ dInstance = 0
    /\ dObj = <<>>
    /\ lInstance = 0
    /\ lObj = <<>>
    /\ pcB = [b \in Callers |-> "idle"]
    /\ bNested = [b \in Callers |-> FALSE]
    /\ bSelfD = [b \in Callers |-> 0]
    /\ bSelfL = [b \in Callers |-> 0]
    /\ bRet = <<>>
    /\ buildsLeft = MaxBuilds
    /\ shutCalls = MaxShutdowns
    /\ DispInitCommon
    /\ offersLeft = 0
    /\ reqPool = {}
    /\ channels = EmptyRegistry.channels
    /\ chanSubs = EmptyRegistry.chanSubs
    /\ broadcasts = FALSE
    /\ CallersIdle
    /\ callsLeft = 0
    /\ ListenerIdle
    /\ RelayOff
    /\ HistInit
    /\ LibIdle

LifeNext ==
    \/ \E b \in Callers : BuildBegin(b)
    \/ \E b \in Callers : DNew(b)
    \/ \E b \in Callers : DInitTest(b)
    \/ \E b \in Callers : DInitSet(b)
    \/ \E b \in Callers : DInitBody(b)
    \/ \E b \in Callers : LNew(b)
    \/ \E b \in Callers : LInitTest(b)
    \/ \E b \in Callers : LInitSet(b)
    \/ \E b \in Callers : LInitBody(b)
    \/ \E b \in Callers : LStart(b)
    \/ DShutdownCall
    \/ LShutdownCall
    \/ \E l \in DOMAIN lObj : LThreadExit(l)
    \/ \E d \in DOMAIN dObj : DThreadExit(d)

LifeSpec == LifeInit /\ [][LifeNext]_vars

(***************************************************************************)
(* Properties of LifeSpec                                                  *)
(***************************************************************************)
\* C13: the initialization body (state setup and thread start) of a
\* singleton object runs at most once, also when two threads are in the
\* constructor at once; and, as long as nothing was shut down, there is
\* one object per class and every constructor call returned it.
C13_InitOnce ==
    /\ \A d \in DOMAIN dObj : dObj[d].inits <= 1
    /\ \A l \in DOMAIN lObj : lObj[l].inits <= 1
    /\ shutCalls = MaxShutdowns =>
          /\ Len(dObj) <= 1
          /\ Len(lObj) <= 1
          /\ \A j \in DOMAIN bRet : bRet[j][2] = 1

\* the dispatchers whose consumer thread is alive and was not told to stop
LiveDispatchers == {d \in DOMAIN dObj : dObj[d].threads > 0 /\ dObj[d].running}

\* C14: at most one dispatcher has a live consumer thread, and
\* PdiDispatcher._instance refers to it (a dispatcher that was shut down
\* and whose thread has not returned yet is not counted against the
\* claim).
C14_OneLiveDispatcher ==
    /\ Cardinality(LiveDispatchers) <= 1
    /\ \A d \in LiveDispatchers : dInstance = d

(***************************************************************************)
(* PDI framing bytes and the checksum / stuffing routine,                  *)
(* src/pdi/pdi_req.py:60-75.                                               *)
(***************************************************************************)
PDI_SOP == 209

PDI_STF == 222

PDI_EOP == 223

\* PdiCommand members used by the model
BASE_ENGINE == 32

PING == 41

ALL_GET == 1

UPDATE_ENGINE_SPEED == 36

TMCC_TX == 39

TMCC_RX == 40

\* a member whose device type has no request class in DEVICE_TO_REQ_MAP
AMC2_GET == 48

SER2_GET == 64

IRDA_GET == 68

\* PdiCommand: value -> name, the name split at '_'
PdiCommandNames ==
    (ALL_GET :> <<"ALL", "GET">>) @@ (BASE_ENGINE :> <<"BASE", "ENGINE">>) @@
    (UPDATE_ENGINE_SPEED :> <<"UPDATE", "ENGINE", "SPEED">>) @@
    (TMCC_TX :> <<"TMCC", "TX">>) @@ (TMCC_RX :> <<"TMCC", "RX">>) @@
    (PING :> <<"PING">>) @@ (AMC2_GET :> <<"AMC2", "GET">>) @@
    (SER2_GET :> <<"SER2", "GET">>) @@ (IRDA_GET :> <<"IRDA", "GET">>)

PdiCommands == DOMAIN PdiCommandNames

\* PdiCommand.is_base, .is_lcs, .is_tmcc, .is_ping
is_base(code) == Head(PdiCommandNames[code]) \in {"BASE", "UPDATE"}

is_lcs(code) == Head(PdiCommandNames[code]) \in {"SER2", "IRDA"}

is_tmcc(code) == code \in {TMCC_TX, TMCC_RX}

\* CommonAction.CONFIG, and the values Ser2Action / IrdaAction accept
CONFIG == 3

PdiActions == 1..7

\* first byte of a TMCC1 command and of a TMCC2 engine / train command
TmccPrefixes == {254, 248, 249}

\* CommandReq.from_bytes: TRUE when it returns a command
CommandReqFromBytesOk(data) == Len(data) = 3 /\ data[1] \in TmccPrefixes

\* lines 62-72: the loop over data; acc is <<byte_stream, check_sum>>
RECURSIVE ChecksumLoop(_, _, _)
ChecksumLoop(data, add_stf, acc) ==
    IF data = <<>> THEN acc
    ELSE LET b == Head(data)
             special == b \in {PDI_SOP, PDI_STF, PDI_EOP}
             sum == acc[2] + b + (IF special THEN PDI_STF ELSE 0)
             stream == IF special
                       THEN (IF add_stf THEN acc[1] \o <<PDI_STF, b>>
                             ELSE acc[1])
                       ELSE Append(acc[1], b)
         IN ChecksumLoop(Tail(data), add_stf, <<stream, sum>>)

\* lines 74-75: check_sum = 0xff & (0 - check_sum)
_calculate_checksum(data, add_stf) ==
    LET acc == ChecksumLoop(data, add_stf, << <<>>, 0 >>)
    IN [stream |-> acc[1], checksum |-> (256 - (acc[2] % 256)) % 256]

\* as_bytes, lines 104-110 / 340-345: SOP, stuffed body, checksum, EOP
AsBytes(body) ==
    LET c == _calculate_checksum(body, TRUE)
    IN <<PDI_SOP>> \o c.stream \o <<c.checksum, PDI_EOP>>

\* PdiReq.__init__ from bytes, lines 39-49: TRUE when no error is raised
InitFromBytesOk(data) ==
    /\ data[1] = PDI_SOP
    /\ data[Len(data)] = PDI_EOP
    /\ data[Len(data) - 1] =
          _calculate_checksum(SubSeq(data, 2, Len(data) - 2), FALSE).checksum

\* self._data, line 46: the body with the stuff bytes removed
DataOf(data) == _calculate_checksum(SubSeq(data, 2, Len(data) - 2), FALSE).stream

\* DEVICE_TO_REQ_MAP, lines 228-355: device type -> request class
DEVICE_TO_REQ_MAP ==
    [dev \in {"SER2", "IRDA", "TMCC", "BASE", "UPDATE", "ALL", "PING"} |->
        CASE dev = "SER2" -> "Ser2Req"
          [] dev = "IRDA" -> "IrdaReq"
          [] dev = "TMCC" -> "TmccReq"
          [] dev \in {"BASE", "UPDATE"} -> "BaseReq"
          [] dev = "ALL" -> "AllGetReq"
          [] dev = "PING" -> "PingReq"]

\* LcsReq.__init__ with Ser2Req / IrdaReq.__init__ on bytes, lines 156-162
\* and 210-211 / 238-239: TRUE when no error is raised
LcsReqInitOk(data) ==
    /\ InitFromBytesOk(data)
    /\ is_lcs(data[2])
    /\ Len(DataOf(data)) >= 3
    /\ DataOf(data)[3] \in PdiActions

\* TmccReq.__init__ on bytes, lines 263-271
TmccReqInitOk(data) ==
    /\ InitFromBytesOk(data)
    /\ is_tmcc(data[2])
    /\ CommandReqFromBytesOk(Tail(DataOf(data)))

\* BaseReq.__init__, lines 299-302
BaseReqInitOk(data) == is_base(data[2]) /\ InitFromBytesOk(data)

\* AllGetReq.__init__, lines 314-317
AllGetReqInitOk(data) == InitFromBytesOk(data)

\* PingReq.__init__, lines 332-336
PingReqInitOk(data) == InitFromBytesOk(data) /\ data[2] = PING

\* the constructor call of line 32: the request built, or ok = FALSE when
\* the constructor raises
Construct(cls, data) ==
    LET ok == CASE cls = "Ser2Req" -> LcsReqInitOk(data)
                [] cls = "IrdaReq" -> LcsReqInitOk(data)
                [] cls = "TmccReq" -> TmccReqInitOk(data)
                [] cls = "BaseReq" -> BaseReqInitOk(data)
                [] cls = "AllGetReq" -> AllGetReqInitOk(data)
                [] cls = "PingReq" -> PingReqInitOk(data)
        kind == CASE cls = "Ser2Req" -> "ser2"
                  [] cls = "IrdaReq" -> "irda"
                  [] cls = "TmccReq" -> "tmcc"
                  [] cls = "BaseReq" -> "base"
                  [] cls = "AllGetReq" -> "all"
                  [] cls = "PingReq" -> "ping"
    IN IF ok THEN [ok |-> TRUE, kind |-> kind, data |-> DataOf(data)]
       ELSE [ok |-> FALSE, kind |-> "error", data |-> <<>>]

\* lines 31-34 with every device type given a class: a default instead of
\* NotImplementedError
ReqClassForDefault(dev) ==
    [registered |-> TRUE,
     cls |-> IF dev \in DOMAIN DEVICE_TO_REQ_MAP THEN DEVICE_TO_REQ_MAP[dev]
             ELSE "AllGetReq"]

\* lines 31-34: the class registered for the device type, if any
ReqClassFor(dev) ==
    [registered |-> dev \in DOMAIN DEVICE_TO_REQ_MAP,
     cls |-> IF dev \in DOMAIN DEVICE_TO_REQ_MAP THEN DEVICE_TO_REQ_MAP[dev]
             ELSE "none"]

\* PdiReq.from_bytes, lines 21-34: the decoded request, or ok = FALSE when
\* an exception is raised
from_bytes(data) ==
    IF data[2] \notin PdiCommands
    THEN [ok |-> FALSE, kind |-> "error", data |-> <<>>]
    ELSE LET c == ReqClassFor(Head(PdiCommandNames[data[2]]))
         IN IF c.registered THEN Construct(c.cls, data)
            ELSE [ok |-> FALSE, kind |-> "error", data |-> <<>>]

(***************************************************************************)
(* The byte streams handed to PdiListener.offer: garbage, one encoded      *)
(* frame, garbage.                                                         *)
(***************************************************************************)
\* longest payload after the command byte
MaxData == 2
\* longest run of garbage before and after the frame
MaxGarbage == 1
\* self._deque = deque(maxlen=DEFAULT_QUEUE_SIZE)
DequeMax == 12

DataBytes == {1, 2, PDI_SOP, PDI_STF, PDI_EOP}

GarbageBytes == {1, PDI_STF, PDI_EOP}

SeqsUpTo(S, n) == UNION {[1..k -> S] : k \in 0..n}

Bodies == {<<BASE_ENGINE>> \o d : d \in SeqsUpTo(DataBytes, MaxData)}

Garbage == SeqsUpTo(GarbageBytes, MaxGarbage)

Streams == {g1 \o AsBytes(b) \o g2 : g1 \in Garbage, b \in Bodies,
                                     g2 \in Garbage}

(***************************************************************************)
(* PdiListener.offer, src/pdi/pdi_listener.py:154-158                      *)
(***************************************************************************)
\* deque.extend on a deque with maxlen: the oldest bytes fall off the left
Extend(dq, data) ==
    LET all == dq \o data
    IN IF Len(all) <= DequeMax THEN all
       ELSE SubSeq(all, Len(all) - DequeMax + 1, Len(all))

\* offer() without line 158: the bytes are appended, nobody is notified
LOfferNoNotify ==
    /\ toOffer # <<>>
    /\ \E n \in 1..Len(toOffer) :
          /\ deque' = Extend(deque, SubSeq(toOffer, 1, n))
          /\ toOffer' = SubSeq(toOffer, n + 1, Len(toOffer))
    /\ UNCHANGED <<lsnRunning, pcL, dqLen, eopPos, popLeft, reqBytes, emitted,
                   rejected>>
    /\ UNCHANGED <<dispVars, regVars, callVars, relayVars, histVars,
                   lifeVars, libVars>>

LOffer ==
    /\ toOffer # <<>>
    /\ \E n \in 1..Len(toOffer) :
          /\ deque' = Extend(deque, SubSeq(toOffer, 1, n))
          /\ toOffer' = SubSeq(toOffer, n + 1, Len(toOffer))
    /\ pcL' = IF pcL = "waiting" THEN "len" ELSE pcL
    /\ UNCHANGED <<lsnRunning, dqLen, eopPos, popLeft, reqBytes, emitted,
                   rejected>>
    /\ UNCHANGED <<dispVars, regVars, callVars, relayVars, histVars,
                   lifeVars, libVars>>

(***************************************************************************)
(* PdiListener.run, src/pdi/pdi_listener.py:111-152                        *)
(***************************************************************************)
\* deque.index(PDI_EOP), 0-based; -1 stands for ValueError
IndexOfEop(dq) ==
    IF \E j \in 1..Len(dq) : dq[j] = PDI_EOP
    THEN (CHOOSE j \in 1..Len(dq) :
             dq[j] = PDI_EOP /\ \A k \in 1..(j - 1) : dq[k] # PDI_EOP) - 1
    ELSE -1

\* lines 112-116: the running test, then the wait on an empty deque
LTop ==
    /\ pcL = "top"
    /\ lsnRunning
    /\ pcL' = IF deque = <<>> THEN "waiting" ELSE "len"
    /\ UNCHANGED <<deque, lsnRunning, dqLen, eopPos, popLeft, reqBytes,
                   toOffer, emitted, rejected>>
    /\ UNCHANGED <<dispVars, regVars, callVars, relayVars, histVars,
                   lifeVars, libVars>>

\* line 118: dq_len = len(self._deque)
LLen ==
    /\ pcL = "len"
    /\ dqLen' = Len(deque)
    /\ pcL' = "scan"
    /\ UNCHANGED <<deque, lsnRunning, eopPos, popLeft, reqBytes, toOffer,
                   emitted, rejected>>
    /\ UNCHANGED <<dispVars, regVars, callVars, relayVars, histVars,
                   lifeVars, libVars>>

\* lines 119-130: the loop test, the SOP test and the search for an EOP
LScan ==
    /\ pcL = "scan"
    /\ IF dqLen <= 0
       THEN pcL' = "top" /\ UNCHANGED <<dqLen, eopPos>>
       ELSE IF deque[1] # PDI_SOP
       THEN pcL' = "drop" /\ UNCHANGED <<dqLen, eopPos>>
       ELSE IF IndexOfEop(deque) = -1
       THEN pcL' = "scan" /\ dqLen' = -1 /\ UNCHANGED eopPos
       ELSE pcL' = "check" /\ eopPos' = IndexOfEop(deque) /\ UNCHANGED dqLen
    /\ UNCHANGED <<deque, lsnRunning, popLeft, reqBytes, toOffer, emitted,
                   rejected>>
    /\ UNCHANGED <<dispVars, regVars, callVars, relayVars, histVars,
                   lifeVars, libVars>>

\* lines 132-137: is the byte before the EOP a stuff byte?
LCheck ==
    /\ pcL = "check"
    /\ IF eopPos - 1 > 0
       THEN IF deque[eopPos] = PDI_STF
            THEN pcL' = "scan" /\ UNCHANGED <<popLeft, reqBytes>>
            ELSE pcL' = "pop" /\ popLeft' = eopPos + 1 /\ reqBytes' = <<>>
       ELSE pcL' = "drop" /\ UNCHANGED <<popLeft, reqBytes>>
    /\ UNCHANGED <<deque, lsnRunning, dqLen, eopPos, toOffer, emitted,
                   rejected>>
    /\ UNCHANGED <<dispVars, regVars, callVars, relayVars, histVars,
                   lifeVars, libVars>>

\* lines 138-140: one round of the popleft loop
LPop ==
    /\ pcL = "pop"
    /\ popLeft > 0
    /\ deque # <<>>
    /\ reqBytes' = Append(reqBytes, Head(deque))
    /\ deque' = Tail(deque)
    /\ dqLen' = dqLen - 1
    /\ popLeft' = popLeft - 1
    /\ pcL' = IF popLeft = 1 THEN "dispatch" ELSE "pop"
    /\ UNCHANGED <<lsnRunning, eopPos, toOffer, emitted, rejected>>
    /\ UNCHANGED <<dispVars, regVars, callVars, relayVars, histVars,
                   lifeVars, libVars>>

\* lines 141-145: decode and hand to the dispatcher; an exception is printed
LDispatch ==
    /\ pcL = "dispatch"
    /\ IF from_bytes(reqBytes).ok
       THEN emitted' = Append(emitted, from_bytes(reqBytes)) /\ UNCHANGED rejected
       ELSE rejected' = rejected + 1 /\ UNCHANGED emitted
    /\ pcL' = "scan"
    /\ UNCHANGED <<deque, lsnRunning, dqLen, eopPos, popLeft, reqBytes,
                   toOffer>>
    /\ UNCHANGED <<dispVars, regVars, callVars, relayVars, histVars,
                   lifeVars, libVars>>

\* lines 148-149: drop the first byte
LDrop ==
    /\ pcL = "drop"
    /\ deque # <<>>
    /\ deque' = Tail(deque)
    /\ dqLen' = dqLen - 1
    /\ pcL' = "scan"
    /\ UNCHANGED <<lsnRunning, eopPos, popLeft, reqBytes, toOffer, emitted,
                   rejected>>
    /\ UNCHANGED <<dispVars, regVars, callVars, relayVars, histVars,
                   lifeVars, libVars>>

LsnThread == LTop \/ LLen \/ LScan \/ LCheck \/ LPop \/ LDispatch \/ LDrop

(***************************************************************************)
(* LsnSpec, and LsnFairSpec: the same with a scheduler that lets the       *)
(* listener thread and the transport run.                                  *)
(***************************************************************************)
LsnInit ==
    /\ deque = <<>>
    /\ lsnRunning = TRUE
    /\ pcL = "top"
    /\ dqLen = 0
    /\ eopPos = 0
    /\ popLeft = 0
    /\ reqBytes = <<>>
    /\ toOffer \in Streams
    /\ emitted = <<>>
    /\ rejected = 0
    /\ DispInitCommon
    /\ offersLeft = 0
    /\ reqPool = {}
    /\ channels = EmptyRegistry.channels
    /\ chanSubs = EmptyRegistry.chanSubs
    /\ broadcasts = FALSE
    /\ CallersIdle
    /\ callsLeft = 0
    /\ RelayOff
    /\ HistInit
    /\ LibIdle
    /\ LifeIdle

LsnNext ==
    \/ LOffer
    \/ LTop
    \/ LLen
    \/ LScan
    \/ LCheck
    \/ LPop
    \/ LDispatch
    \/ LDrop

LsnSpec == LsnInit /\ [][LsnNext]_vars

LsnFairSpec == LsnSpec /\ WF_vars(LsnThread) /\ WF_vars(LOffer)

(***************************************************************************)
(* Properties of LsnSpec                                                   *)
(***************************************************************************)
\* C2: once garbage + frame + garbage has been offered, the listener hands
\* exactly one decoded request to the dispatcher, consumes every byte and
\* ends up waiting for input, for good.
C2_OneRequestThenWaits ==
    <>[](/\ pcL = "waiting"
         /\ deque = <<>>
         /\ toOffer = <<>>
         /\ Len(emitted) = 1)

\* C3: when the EOP found after a buffered SOP is preceded by a stuff byte,
\* the step the listener takes changes what it scans next (the scan goes on
\* past that EOP): it never returns to the loop head with the same buffer
\* and the same dq_len.
C3_StuffedEopMakesProgress ==
    [][(/\ pcL = "check"
        /\ eopPos - 1 > 0
        /\ deque[eopPos] = PDI_STF
        /\ pcL' = "scan")
          => (deque' # deque \/ dqLen' # dqLen)]_vars

(***************************************************************************)
(* RecoverSpec: a delimited frame that cannot be decoded, followed by a    *)
(* well-formed frame.                                                      *)
(***************************************************************************)
\* a command code that is no PdiCommand
UNKNOWN_COMMAND == 99

\* frames that are delimited and then fail in from_bytes: the checksum
\* byte is off by one, or the command code is unknown
BadFrames ==
    {LET c == _calculate_checksum(b, TRUE)
     IN <<PDI_SOP>> \o c.stream \o <<(c.checksum + 255) % 256, PDI_EOP>> :
        b \in {<<BASE_ENGINE, 1, 2>>, <<BASE_ENGINE, 2, 2>>}}
      \cup {AsBytes(<<UNKNOWN_COMMAND, 1>>)}

RecoverInit ==
    /\ deque = <<>>
    /\ lsnRunning = TRUE
    /\ pcL = "top"
    /\ dqLen = 0
    /\ eopPos = 0
    /\ popLeft = 0
    /\ reqBytes = <<>>
    /\ toOffer \in {bad \o AsBytes(b) : bad \in BadFrames, b \in Bodies}
    /\ emitted = <<>>
    /\ rejected = 0
    /\ DispInitCommon
    /\ offersLeft = 0
    /\ reqPool = {}
    /\ channels = EmptyRegistry.channels
    /\ chanSubs = EmptyRegistry.chanSubs
    /\ broadcasts = FALSE
    /\ CallersIdle
    /\ callsLeft = 0
    /\ RelayOff
    /\ HistInit
    /\ LibIdle
    /\ LifeIdle

RecoverSpec == RecoverInit /\ [][LsnNext]_vars

RecoverFairSpec == RecoverSpec /\ WF_vars(LsnThread) /\ WF_vars(LOffer)

\* C19: after a delimited frame that fails decoding the listener goes on:
\* the bad frame is discarded (one rejection), the well-formed frame that
\* follows is handed to the dispatcher, and the thread ends up waiting for
\* input with nothing buffered.
C19_RecoversAfterBadFrame ==
    <>[](/\ pcL = "waiting"
         /\ deque = <<>>
         /\ toOffer = <<>>
         /\ rejected = 1
         /\ Len(emitted) = 1)

(***************************************************************************)
(* LongSpec: one well-formed frame, up to longer than the deque.           *)
(***************************************************************************)
\* longest payload after the command byte in LongSpec
MaxLongData == 11

LongBodies == {<<BASE_ENGINE>> \o [j \in 1..k |-> 4] : k \in 0..MaxLongData}

LongInit ==
    /\ deque = <<>>
    /\ lsnRunning = TRUE
    /\ pcL = "top"
    /\ dqLen = 0
    /\ eopPos = 0
    /\ popLeft = 0
    /\ reqBytes = <<>>
    /\ toOffer \in {AsBytes(b) : b \in LongBodies}
    /\ emitted = <<>>
    /\ rejected = 0
    /\ DispInitCommon
    /\ offersLeft = 0
    /\ reqPool = {}
    /\ channels = EmptyRegistry.channels
    /\ chanSubs = EmptyRegistry.chanSubs
    /\ broadcasts = FALSE
    /\ CallersIdle
    /\ callsLeft = 0
    /\ RelayOff
    /\ HistInit
    /\ LibIdle
    /\ LifeIdle

LongSpec == LongInit /\ [][LsnNext]_vars

\* C20: offer() never loses a buffered byte, whatever the length of the
\* frame being accumulated: after it the buffer is the old buffer followed
\* by the bytes offered; and what is handed to the decoder starts with the
\* SOP and ends with the EOP of a frame.
C20_NoByteLost ==
    [][/\ Len(toOffer') < Len(toOffer) =>
            deque' = deque \o SubSeq(toOffer, 1, Len(toOffer) - Len(toOffer'))
       /\ (pcL = "pop" /\ pcL' = "dispatch") =>
            /\ reqBytes'[1] = PDI_SOP
            /\ reqBytes'[Len(reqBytes')] = PDI_EOP]_vars

(***************************************************************************)
(* CodecSpec: one encode / decode round of a PDI frame, src/pdi/pdi_req.py. *)
(* A body is stuffed and framed, the stuffed stream is destuffed, one      *)
(* payload byte of the frame may be changed on the wire, and the frame is  *)
(* handed to PdiReq.from_bytes.                                            *)
(***************************************************************************)
\* longest body after the command byte
MaxCodecData == 2

\* 175 + 34 = 209: the sum of a byte and the stuff byte wraps round at 256
CodecBytes == {1, CONFIG, 175, PDI_SOP, PDI_STF, PDI_EOP}

CodecCodes == PdiCommands \cup {UNKNOWN_COMMAND}

CodecBodies ==
    {<<c>> \o d : c \in CodecCodes, d \in SeqsUpTo(CodecBytes, MaxCodecData)}
      \cup {<<TMCC_RX, 254, 1, CONFIG>>}

\* PingReq.as_bytes inherited from PdiReq (lines 104-110): device id and
\* action bytes after the command byte
PingReqAsBytesInherited == AsBytes(<<PING, 0, CONFIG>>)

\* PingReq.as_bytes, lines 339-345
PingReqAsBytes == AsBytes(<<PING>>)

\* a request built for sending is encoded: _calculate_checksum(body, True)
\* and the framing of as_bytes
XEncode ==
    /\ pcX = "new"
    /\ cBody # <<PING>>
    /\ cStuffed' = _calculate_checksum(cBody, TRUE).stream
    /\ cFrame' = AsBytes(cBody)
    /\ cSent' = cFrame'
    /\ pcX' = "sent"
    /\ UNCHANGED <<cBody, cDestuffed, cBack>>
    /\ UNCHANGED <<dispVars, regVars, callVars, lsnVars, relayVars, histVars,
                   lifeVars, stateVars, encVars, extVars>>

\* PingReq().as_bytes
XEncodePing ==
    /\ pcX = "new"
    /\ cBody = <<PING>>
    /\ cStuffed' = _calculate_checksum(cBody, TRUE).stream
    /\ cFrame' = PingReqAsBytes
    /\ cSent' = cFrame'
    /\ pcX' = "sent"
    /\ UNCHANGED <<cBody, cDestuffed, cBack>>
    /\ UNCHANGED <<dispVars, regVars, callVars, lsnVars, relayVars, histVars,
                   lifeVars, stateVars, encVars, extVars>>

\* _calculate_checksum(stuffed, False) on what the encoder stuffed
XDestuff ==
    /\ pcX = "sent"
    /\ cDestuffed' = _calculate_checksum(cStuffed, FALSE).stream
    /\ pcX' = "destuffed"
    /\ UNCHANGED <<cBody, cStuffed, cFrame, cSent, cBack>>
    /\ UNCHANGED <<dispVars, regVars, callVars, lsnVars, relayVars, histVars,
                   lifeVars, stateVars, encVars, extVars>>

\* the positions of a frame between the SOP and the checksum byte
PayloadPositions(frame) == 2..(Len(frame) - 2)

\* one payload byte arrives changed
XCorrupt ==
    /\ pcX = "destuffed"
    /\ \E i \in PayloadPositions(cFrame), v \in CodecBytes \cup {BASE_ENGINE} :
          /\ v # cFrame[i]
          /\ cFrame' = [cFrame EXCEPT ![i] = v]
    /\ pcX' = "corrupted"
    /\ UNCHANGED <<cBody, cStuffed, cDestuffed, cSent, cBack>>
    /\ UNCHANGED <<dispVars, regVars, callVars, lsnVars, relayVars, histVars,
                   lifeVars, stateVars, encVars, extVars>>

\* PdiReq.from_bytes on the frame received
XDecode ==
    /\ pcX \in {"destuffed", "corrupted"}
    /\ cBack' = from_bytes(cFrame)
    /\ pcX' = "decoded"
    /\ UNCHANGED <<cBody, cStuffed, cDestuffed, cFrame, cSent>>
    /\ UNCHANGED <<dispVars, regVars, callVars, lsnVars, relayVars, histVars,
                   lifeVars, stateVars, encVars, extVars>>

CodecInit ==
    /\ cBody \in CodecBodies
    /\ cStuffed = <<>>
    /\ cDestuffed = <<>>
    /\ cFrame = <<>>
    /\ cSent = <<>>
    /\ cBack = NotDecoded
    /\ pcX = "new"
    /\ ListenerIdle
    /\ DispInitCommon
    /\ offersLeft = 0
    /\ reqPool = {}
    /\ channels = EmptyRegistry.channels
    /\ chanSubs = EmptyRegistry.chanSubs
    /\ broadcasts = FALSE
    /\ CallersIdle
    /\ callsLeft = 0
    /\ RelayOff
    /\ HistInit
    /\ LifeIdle
    /\ StoreIdle
    /\ EncIdle
    /\ ExtIdle

CodecNext ==
    \/ XEncode
    \/ XEncodePing
    \/ XDestuff
    \/ XCorrupt
    \/ XDecode

CodecSpec == CodecInit /\ [][CodecNext]_vars

(***************************************************************************)
(* Properties of CodecSpec                                                 *)
(***************************************************************************)
RECURSIVE SumBytes(_)
SumBytes(bytes) == IF bytes = <<>> THEN 0 ELSE Head(bytes) + SumBytes(Tail(bytes))

\* the checksum byte of a frame: the byte before the EOP
ChecksumByte(frame) == frame[Len(frame) - 1]

Encoded == pcX \in {"sent", "destuffed", "corrupted", "decoded"}

\* C21: for every body, with or without SOP-, STF- or EOP-valued bytes, the
\* checksum byte the encoder appends satisfies
\* (sum of the unstuffed body bytes + checksum) mod 256 = 0.
C21_ChecksumCancelsBody ==
    Encoded => (SumBytes(cBody) + ChecksumByte(cSent)) % 256 = 0

\* the frame arrived as it was sent / with one payload byte changed
Intact == cFrame = cSent

\* C22: changing any single payload byte of a well-formed encoded frame to
\* any other value makes decoding reject the frame: no request is produced
\* from the changed frame.
C22_CorruptionRejected ==
    (pcX = "decoded" /\ ~Intact) => ~cBack.ok

\* C23: stuffing then destuffing is the identity on every body, also on
\* bodies that hold SOP-, STF- or EOP-valued bytes, and the frame encoded
\* from such a body decodes to a request holding that body.
C23_StuffDestuffIdentity ==
    /\ pcX \in {"destuffed", "corrupted", "decoded"} => cDestuffed = cBody
    /\ (pcX = "decoded" /\ Intact /\ cBody[1] = BASE_ENGINE) =>
          cBack.ok /\ cBack.data = cBody

\* the request subtype the claim names for each device type
ExpectedKind(dev) ==
    CASE dev = "SER2" -> "ser2"
      [] dev = "IRDA" -> "irda"
      [] dev \in {"BASE", "UPDATE"} -> "base"
      [] dev = "TMCC" -> "tmcc"
      [] dev = "ALL" -> "all"
      [] dev = "PING" -> "ping"
      [] OTHER -> "none"

\* C24: from_bytes maps the command code of the frame to exactly one request
\* subtype, the one of the code's device type (SER2, IRDA, BASE/UPDATE,
\* TMCC, ALL, PING); for a code that is no PdiCommand, or whose device type
\* has no request class, it raises and returns no request.
C24_OneSubtypePerCode ==
    pcX = "decoded" =>
       LET code == cFrame[2]
       IN IF code \in PdiCommands
          THEN LET want == ExpectedKind(Head(PdiCommandNames[code]))
               IN IF want = "none" THEN ~cBack.ok
                  ELSE cBack.ok => cBack.kind = want
          ELSE ~cBack.ok

C24_Witness ==
    /\ pcX = "decoded"
    /\ cBack.ok
    /\ cBack.kind = "tmcc"
    /\ cFrame[2] = TMCC_RX

\* C25: a PingReq encodes to exactly the four bytes SOP, PING code,
\* checksum, EOP, with no device-id or action byte, and from_bytes of those
\* bytes returns a PingReq.
C25_PingFourBytes ==
    (Encoded /\ cBody = <<PING>>) =>
       /\ cSent = <<PDI_SOP, PING, (256 - PING) % 256, PDI_EOP>>
       /\ (pcX = "decoded" /\ Intact) => (cBack.ok /\ cBack.kind = "ping")

C25_Witness ==
    /\ pcX = "decoded"
    /\ cBody = <<PING>>
    /\ Intact
    /\ cBack.kind = "ping"

(***************************************************************************)
(* StateSpec: the state store, src/db/component_state.py.  Callers read    *)
(* states[scope] of a ComponentStateDict and call update(command) on the   *)
(* records it holds.                                                       *)
(***************************************************************************)
\* update() calls made in a run
MaxUpdates == 3

\* command.address of the commands received
StateAddrs == {1, 2}

\* _SCOPE_TO_STATE_MAP, lines 141-146
_SCOPE_TO_STATE_MAP ==
    [k \in {"SWITCH", "ACC", "ENGINE", "TRAIN"} |->
        CASE k = "SWITCH" -> "SwitchState"
          [] k = "ACC" -> "AccessoryState"
          [] k \in {"ENGINE", "TRAIN"} -> "EngineState"]

\* the constructors, lines 18-22, 50-54, 80-87 and 127-131: every field None
NewState(cls, scope) ==
    [cls |-> cls, scope |-> scope, address |-> None, last_command |-> NoCommand,
     last_updated |-> None, state |-> "None", aux_state |-> "None",
     aux1_state |-> "None", aux2_state |-> "None", number |-> None]

\* members of TMCC1SwitchState (Switch) and TMCC1AuxCommandDef (Aux) that
\* the update methods name, and one engine command
SwitchCommands == {"Switch.THROUGH", "Switch.OUT", "Switch.SET_ADDRESS"}

AuxCommands == {"Aux.AUX1_OPTION_ONE", "Aux.AUX1_ON", "Aux.AUX2_OPTION_ONE",
                "Aux.AUX2_OFF", "Aux.NUMERIC", "Aux.SET_ADDRESS"}

EngineCommands == {"Engine.ABSOLUTE_SPEED"}

\* CommandReq objects: command, address, data
CommandReqs(names) ==
    {[command |-> c, address |-> a, data |-> IF c = "Aux.NUMERIC" THEN 5 ELSE None] :
        c \in names, a \in StateAddrs}

\* the commands a record of each class is updated with
CommandsFor(cls) ==
    CASE cls = "SwitchState" -> CommandReqs(SwitchCommands)
      [] cls = "AccessoryState" -> CommandReqs(AuxCommands)
      [] cls = "EngineState" -> CommandReqs(EngineCommands)

\* command == member, for a CommandReq object and an enum member: objects
\* of different types, never equal
CommandReqEq(command, member) == FALSE

\* line 43-44 without the test of line 43
AddressAfterOverwrite(address, command) == command.address

\* lines 43-44: the address is set while it is None
AddressAfter(address, command) ==
    IF address = None THEN command.address ELSE address

\* ComponentState.update, lines 41-46
BaseUpdate(st, command, now) ==
    [st EXCEPT !.address = AddressAfter(st.address, command),
               !.last_updated = now,
               !.last_command = command]

\* SwitchState.update, lines 56-60
SwitchUpdate(st, command, now) ==
    LET b == BaseUpdate(st, command, now)
    IN IF ~CommandReqEq(command, "Switch.SET_ADDRESS")
       THEN [b EXCEPT !.state = command.command]
       ELSE b

\* AccessoryState.update, lines 92-103
AccessoryUpdate(st, command, now) ==
    LET b == BaseUpdate(st, command, now)
        c == command.command
        s0 == IF c \in {"Aux.AUX1_OPTION_ONE", "Aux.AUX2_OPTION_ONE"}
              THEN [b EXCEPT !.aux_state = c] ELSE b
        s1 == IF c \in {"Aux.AUX1_OPTION_ONE", "Aux.AUX1_ON", "Aux.AUX1_OFF",
                        "Aux.AUX1_OPTION_TWO"}
              THEN [s0 EXCEPT !.aux1_state = c]
              ELSE IF c \in {"Aux.AUX2_OPTION_ONE", "Aux.AUX2_ON", "Aux.AUX2_OFF",
                             "Aux.AUX2_OPTION_TWO"}
                   THEN [s0 EXCEPT !.aux2_state = c]
                   ELSE s0
        s2 == IF c = "Aux.NUMERIC" THEN [s1 EXCEPT !.number = command.data]
              ELSE s1
    IN IF ~CommandReqEq(command, "Aux.SET_ADDRESS") THEN s2 ELSE b

\* EngineState.update, lines 136-138
EngineUpdate(st, command, now) == BaseUpdate(st, command, now)

Updated(st, command, now) ==
    CASE st.cls = "SwitchState" -> SwitchUpdate(st, command, now)
      [] st.cls = "AccessoryState" -> AccessoryUpdate(st, command, now)
      [] st.cls = "EngineState" -> EngineUpdate(st, command, now)

\* __missing__ without line 161: the record is built and returned, and not
\* installed
SGetNoInstall(key) ==
    /\ IF states[key] # NoState
       THEN lastGet' = [key |-> key, out |-> "record"]
       ELSE IF key \in DOMAIN _SCOPE_TO_STATE_MAP
            THEN lastGet' = [key |-> key, out |-> "record"]
            ELSE lastGet' = [key |-> key, out |-> "None"]
    /\ UNCHANGED <<states, clock, prev, lastCmd>>
    /\ UNCHANGED <<dispVars, regVars, callVars, lsnVars, relayVars, histVars,
                   lifeVars, codecVars, encVars, extVars>>

\* states[key]: a hit, or ComponentStateDict.__missing__, lines 155-162
SGet(key) ==
    /\ IF states[key] # NoState
       THEN /\ lastGet' = [key |-> key, out |-> "record"]
            /\ UNCHANGED states
       ELSE IF key \in DOMAIN _SCOPE_TO_STATE_MAP
            THEN /\ states' = [states EXCEPT
                                 ![key] = NewState(_SCOPE_TO_STATE_MAP[key], key)]
                 /\ lastGet' = [key |-> key, out |-> "record"]
            ELSE /\ lastGet' = [key |-> key, out |-> "None"]
                 /\ UNCHANGED states
    /\ UNCHANGED <<clock, prev, lastCmd>>
    /\ UNCHANGED <<dispVars, regVars, callVars, lsnVars, relayVars, histVars,
                   lifeVars, codecVars, encVars, extVars>>

\* states[key].update(command) on a record that is installed
SUpdate(key) ==
    /\ states[key] # NoState
    /\ clock < MaxUpdates
    /\ \E command \in CommandsFor(states[key].cls) :
          /\ states' = [states EXCEPT
                          ![key] = Updated(states[key], command, clock + 1)]
          /\ lastCmd' = command
    /\ prev' = states[key]
    /\ clock' = clock + 1
    /\ UNCHANGED lastGet
    /\ UNCHANGED <<dispVars, regVars, callVars, lsnVars, relayVars, histVars,
                   lifeVars, codecVars, encVars, extVars>>

StateInit ==
    /\ StoreIdle
    /\ ListenerIdle
    /\ DispInitCommon
    /\ offersLeft = 0
    /\ reqPool = {}
    /\ channels = EmptyRegistry.channels
    /\ chanSubs = EmptyRegistry.chanSubs
    /\ broadcasts = FALSE
    /\ CallersIdle
    /\ callsLeft = 0
    /\ RelayOff
    /\ HistInit
    /\ LifeIdle
    /\ CodecIdle
    /\ EncIdle
    /\ ExtIdle

StateNext ==
    \/ \E key \in CommandScopes : SGet(key)
    \/ \E key \in CommandScopes : SUpdate(key)

StateSpec == StateInit /\ [][StateNext]_vars

(***************************************************************************)
(* Properties of StateSpec                                                 *)
(***************************************************************************)
\* an update() call has been made; prev is the record before it and
\* states[prev.scope] the record after it
UpdateMade == lastCmd # NoCommand

\* C26: the first update(command) call on a record sets its address from
\* that command, and no later update call, for whatever address, changes
\* it: once set, the address stays.
C26_AddressSetOnce ==
    UpdateMade =>
       LET now == states[prev.scope]
       IN /\ prev.address = None => now.address = lastCmd.address
          /\ prev.address # None => now.address = prev.address
          /\ \A k \in CommandScopes :
                (states[k] # NoState /\ states[k].last_command # NoCommand) =>
                    states[k].address # None

C26_Witness ==
    /\ UpdateMade
    /\ prev.address # None
    /\ lastCmd.address # prev.address
    /\ states[prev.scope].last_command = lastCmd

\* C27: reading states[scope] for a scope that _SCOPE_TO_STATE_MAP does not
\* map (ROUTE, SYSTEM) fails with an error to the caller; it never returns
\* None.
C27_UnmappedScopeFails ==
    lastGet.key \in (CommandScopes \ DOMAIN _SCOPE_TO_STATE_MAP) =>
        lastGet.out = "error"

TypeFields(st) ==
    <<st.state, st.aux_state, st.aux1_state, st.aux2_state, st.number>>

\* C28: an update with a SET_ADDRESS command leaves the type-specific fields
\* as they were: SwitchState.state, and AccessoryState's aux_state,
\* aux1_state, aux2_state and number; only address, last command and
\* timestamp may change.
C28_SetAddressKeepsState ==
    (UpdateMade /\ lastCmd.command \in {"Switch.SET_ADDRESS", "Aux.SET_ADDRESS"}) =>
        TypeFields(states[prev.scope]) = TypeFields(prev)

(***************************************************************************)
(* EncSpec: EngineOptionEnum.apply_data, src/protocol/constants.py:197-236, *)
(* called on the options of TMCC1EngineOption and TMCC2EngineOption with   *)
(* every operand of a range around the declared domains, or with none.     *)
(***************************************************************************)
\* operands run over -MaxOperand..MaxOperand
MaxOperand == 200

\* data is None
NoData == -999

Operands == (-MaxOperand)..MaxOperand

\* lines 94-96, 173-177, 186 and 194: the command words
TMCC1_ENG_ABSOLUTE_SPEED_COMMAND == 96

TMCC1_ENG_RELATIVE_SPEED_COMMAND == 64

TMCC1_ENG_FORWARD_DIRECTION_COMMAND == 0

TMCC2_SET_ABSOLUTE_SPEED_COMMAND == 0

TMCC2_SET_MOMENTUM_COMMAND == 200

TMCC2_SET_BRAKE_COMMAND == 224

TMCC2_SET_BOOST_COMMAND == 232

TMCC2_SET_TRAIN_BRAKE_COMMAND == 240

TMCC2_RING_BELL_COMMAND == 285

TMCC2_SET_RELATIVE_SPEED_COMMAND == 320

\* the map with the operand as a 4-bit two's-complement value
RELATIVE_SPEED_MAP_TwosComplement == [v \in -5..5 |-> v % 16]

\* line 161: dict(zip(range(-5, 6), range(0, 11)))
RELATIVE_SPEED_MAP == [v \in -5..5 |-> v + 5]

\* EngineOptionEnum(command_op, d_min, d_max, d_map), lines 198-202;
\* d_map is TRUE for d_map=RELATIVE_SPEED_MAP, FALSE for d_map=None
EngineOptionEnum(name, command_op, d_min, d_max, d_map) ==
    [name |-> name, command_op |-> command_op, d_min |-> d_min,
     d_max |-> d_max, d_map |-> d_map]

\* members of TMCC1EngineOption and TMCC2EngineOption, lines 255-300
EngineOptions ==
    {EngineOptionEnum("TMCC1.ABSOLUTE_SPEED", TMCC1_ENG_ABSOLUTE_SPEED_COMMAND, 0, 31, FALSE),
     EngineOptionEnum("TMCC1.RELATIVE_SPEED", TMCC1_ENG_RELATIVE_SPEED_COMMAND, 0, 0, TRUE),
     EngineOptionEnum("TMCC1.FORWARD_DIRECTION", TMCC1_ENG_FORWARD_DIRECTION_COMMAND, 0, 0, FALSE),
     EngineOptionEnum("TMCC2.ABSOLUTE_SPEED", TMCC2_SET_ABSOLUTE_SPEED_COMMAND, 0, 199, FALSE),
     EngineOptionEnum("TMCC2.RELATIVE_SPEED", TMCC2_SET_RELATIVE_SPEED_COMMAND, 0, 0, TRUE),
     EngineOptionEnum("TMCC2.MOMENTUM", TMCC2_SET_MOMENTUM_COMMAND, 0, 7, FALSE),
     EngineOptionEnum("TMCC2.BRAKE_LEVEL", TMCC2_SET_BRAKE_COMMAND, 0, 7, FALSE),
     EngineOptionEnum("TMCC2.BOOST_LEVEL", TMCC2_SET_BOOST_COMMAND, 0, 7, FALSE),
     EngineOptionEnum("TMCC2.TRAIN_BRAKE", TMCC2_SET_TRAIN_BRAKE_COMMAND, 0, 7, FALSE),
     EngineOptionEnum("TMCC2.RING_BELL", TMCC2_RING_BELL_COMMAND, 0, 0, FALSE)}

\* math.ceil(math.log2(n)) for n >= 1: the least k with 2^k >= n
RECURSIVE CeilLog2From(_, _)
CeilLog2From(n, k) == IF 2^k >= n THEN k ELSE CeilLog2From(n, k + 1)

CeilLog2(n) == CeilLog2From(n, 0)

MaxOf(S) == CHOOSE x \in S : \A y \in S : y <= x

\* the width with one bit more than lines 203-207 declare
d_bitsWider(o) ==
    IF o.d_max # 0 THEN CeilLog2(o.d_max) + 1
    ELSE IF o.d_map
         THEN CeilLog2(MaxOf({RELATIVE_SPEED_MAP[v] : v \in DOMAIN RELATIVE_SPEED_MAP}))
         ELSE 0

\* self._d_bits, lines 203-207
d_bits(o) ==
    IF o.d_max # 0 THEN CeilLog2(o.d_max)
    ELSE IF o.d_map
         THEN CeilLog2(MaxOf({RELATIVE_SPEED_MAP[v] : v \in DOMAIN RELATIVE_SPEED_MAP}))
         ELSE 0

\* a | b on naturals
RECURSIVE BitOr(_, _)
BitOr(a, b) ==
    IF a = 0 THEN b
    ELSE IF b = 0 THEN a
    ELSE (IF a % 2 = 1 \/ b % 2 = 1 THEN 1 ELSE 0) + 2 * BitOr(a \div 2, b \div 2)

\* data & (2 ** bits - 1), line 233
Filtered(data, bits) == data % (2^bits)

RaisedValueError == [ok |-> FALSE, word |-> 0]

\* line 230 without the range test
OutOfRangeNever(o, data) == FALSE

\* line 230: data < self._d_min or data > self._d_max
OutOfRange(o, data) == data < o.d_min \/ data > o.d_max

\* lines 232-236: mask, compare, OR into the command word
Sanitized(o, data) ==
    IF data # Filtered(data, d_bits(o)) THEN RaisedValueError
    ELSE [ok |-> TRUE, word |-> BitOr(data, o.command_op)]

\* apply_data, lines 220-236
apply_data(o, data) ==
    IF d_bits(o) # 0 /\ data = NoData THEN RaisedValueError
    ELSE IF d_bits(o) = 0 THEN [ok |-> TRUE, word |-> o.command_op]
    ELSE IF o.d_map
         THEN IF data \in DOMAIN RELATIVE_SPEED_MAP
              THEN Sanitized(o, RELATIVE_SPEED_MAP[data])
              ELSE RaisedValueError
         ELSE IF OutOfRange(o, data) THEN RaisedValueError
              ELSE Sanitized(o, data)

\* option.apply_data(data)
EApply ==
    /\ pcE = "new"
    /\ eOut' = apply_data(eOpt, eData)
    /\ pcE' = "done"
    /\ UNCHANGED <<eOpt, eData, eBack>>
    /\ UNCHANGED <<dispVars, regVars, callVars, lsnVars, relayVars, histVars,
                   lifeVars, codecVars, stateVars, extVars>>

EncInit ==
    /\ eOpt \in EngineOptions
    /\ eData \in Operands \cup {NoData}
    /\ eOut = RaisedValueError
    /\ pcE = "new"
    /\ eBack = {}
    /\ ListenerIdle
    /\ DispInitCommon
    /\ offersLeft = 0
    /\ reqPool = {}
    /\ channels = EmptyRegistry.channels
    /\ chanSubs = EmptyRegistry.chanSubs
    /\ broadcasts = FALSE
    /\ CallersIdle
    /\ callsLeft = 0
    /\ RelayOff
    /\ HistInit
    /\ LifeIdle
    /\ CodecIdle
    /\ StoreIdle
    /\ ExtIdle

EncNext == EApply

EncSpec == EncInit /\ [][EncNext]_vars

(***************************************************************************)
(* Properties of EncSpec                                                   *)
(***************************************************************************)
\* the option declares an operand: a range or a lookup mapping
TakesData(o) == o.d_max # 0 \/ o.d_map

HasRange(o) == o.d_max # 0 /\ ~o.d_map

\* C29: apply_data fails with a value error, and yields no command word,
\* when the operand is outside the declared range [d_min, d_max], is absent
\* from the declared lookup mapping, or is missing for a command that takes
\* data; and a word is only produced from a code that equals itself masked
\* to the declared width: nothing is truncated silently.
C29_OperandValidated ==
    pcE = "done" =>
       /\ (TakesData(eOpt) /\ eData = NoData) => ~eOut.ok
       /\ (eOpt.d_map /\ eData \notin -5..5) => ~eOut.ok
       /\ (HasRange(eOpt) /\ (eData < eOpt.d_min \/ eData > eOpt.d_max)) => ~eOut.ok
       /\ (TakesData(eOpt) /\ eOut.ok) =>
             LET code == IF eOpt.d_map THEN eData + 5 ELSE eData
             IN /\ code >= 0
                /\ code < 2^d_bits(eOpt)
                /\ eOut.word = BitOr(code, eOpt.command_op)

C29_Witness ==
    /\ pcE = "done"
    /\ ~eOut.ok
    /\ HasRange(eOpt)
    /\ eData > eOpt.d_max
    /\ eData < 2^d_bits(eOpt)

\* C30: for RELATIVE_SPEED of both dialects, operand v in -5..+5 is encoded
\* by OR-ing the code v + 5 (0..10) into the opcode, not a two's-complement
\* value; every other operand is rejected; and the operand is recovered
\* exactly from the code.
C30_RelativeSpeedCodes ==
    (pcE = "done" /\ eOpt.name \in {"TMCC1.RELATIVE_SPEED", "TMCC2.RELATIVE_SPEED"}) =>
       IF eData \in -5..5
       THEN /\ eOut.ok
            /\ eOut.word = BitOr(eOpt.command_op, eData + 5)
            /\ (eOut.word - eOpt.command_op) - 5 = eData
       ELSE ~eOut.ok

C30_Witness ==
    /\ pcE = "done"
    /\ eOpt.name = "TMCC2.RELATIVE_SPEED"
    /\ eData = -5
    /\ eOut = [ok |-> TRUE, word |-> TMCC2_SET_RELATIVE_SPEED_COMMAND]

(***************************************************************************)
(* CatSpec: the TMCC2 engine catalog, TMCC2EngineCommandDef,               *)
(* src/protocol/tmcc2/tmcc2_constants.py:164-222.  Each entry is a         *)
(* TMCC2CommandDef(command_bits, d_min, d_max, d_map) (lines 51-62); the   *)
(* operand is packed as apply_data packs it.  The command word is taken    *)
(* for one address: the address bits lie above bit 8 (address_mask, line   *)
(* 78) and are the same for two commands sent to the same engine.          *)
(***************************************************************************)
\* TMCC2CommandDef.__init__, lines 54-62, with the defaults d_min = 0,
\* d_max = 0, d_map = None
TMCC2CommandDef(name, command_bits, d_min, d_max, d_map) ==
    EngineOptionEnum(name, command_bits, d_min, d_max, d_map)

\* lines 166-222; the command words are those of lines 98-153
TMCC2EngineCommandDef ==
    {TMCC2CommandDef("ABSOLUTE_SPEED", TMCC2_SET_ABSOLUTE_SPEED_COMMAND, 0, 199, FALSE),
     TMCC2CommandDef("AUGER", 503, 0, 0, FALSE),
     TMCC2CommandDef("AUX1_OFF", 264, 0, 0, FALSE),
     TMCC2CommandDef("AUX1_ON", 267, 0, 0, FALSE),
     TMCC2CommandDef("AUX1_OPTION_ONE", 265, 0, 0, FALSE),
     TMCC2CommandDef("AUX1_OPTION_TWO", 266, 0, 0, FALSE),
     TMCC2CommandDef("AUX2_OFF", 268, 0, 0, FALSE),
     TMCC2CommandDef("AUX2_ON", 271, 0, 0, FALSE),
     TMCC2CommandDef("AUX2_OPTION_ONE", 269, 0, 0, FALSE),
     TMCC2CommandDef("AUX2_OPTION_TWO", 270, 0, 0, FALSE),
     TMCC2CommandDef("BELL_OFF", 500, 0, 0, FALSE),
     TMCC2CommandDef("BELL_ON", 501, 0, 0, FALSE),
     TMCC2CommandDef("BELL_ONE_SHOT_DING", 496, 0, 3, FALSE),
     TMCC2CommandDef("BELL_SLIDER_POSITION", 432, 2, 5, FALSE),
     TMCC2CommandDef("BLOW_HORN_ONE", 284, 0, 0, FALSE),
     TMCC2CommandDef("BLOW_HORN_TWO", 287, 0, 0, FALSE),
     TMCC2CommandDef("BOOST_LEVEL", TMCC2_SET_BOOST_COMMAND, 0, 7, FALSE),
     TMCC2CommandDef("BOOST_SPEED", 260, 0, 0, FALSE),
     TMCC2CommandDef("BRAKE_AIR_RELEASE", 504, 0, 0, FALSE),
     TMCC2CommandDef("BRAKE_LEVEL", TMCC2_SET_BRAKE_COMMAND, 0, 7, FALSE),
     TMCC2CommandDef("BRAKE_SPEED", 263, 0, 0, FALSE),
     TMCC2CommandDef("BRAKE_SQUEAL", 502, 0, 0, FALSE),
     TMCC2CommandDef("DIESEL_LEVEL", 416, 0, 7, FALSE),
     TMCC2CommandDef("ENGINE_LABOR", 448, 0, 31, FALSE),
     TMCC2CommandDef("FORWARD_DIRECTION", 256, 0, 0, FALSE),
     TMCC2CommandDef("FRONT_COUPLER", 261, 0, 0, FALSE),
     TMCC2CommandDef("LET_OFF", 505, 0, 0, FALSE),
     TMCC2CommandDef("LET_OFF_LONG", 506, 0, 0, FALSE),
     TMCC2CommandDef("MOMENTUM", TMCC2_SET_MOMENTUM_COMMAND, 0, 7, FALSE),
     TMCC2CommandDef("MOMENTUM_HIGH", 298, 0, 0, FALSE),
     TMCC2CommandDef("MOMENTUM_LOW", 296, 0, 0, FALSE),
     TMCC2CommandDef("MOMENTUM_MEDIUM", 297, 0, 0, FALSE),
     TMCC2CommandDef("NUMERIC", 272, 0, 9, FALSE),
     TMCC2CommandDef("QUILLING_HORN_INTENSITY", 480, 0, 15, FALSE),
     TMCC2CommandDef("REAR_COUPLER", 262, 0, 0, FALSE),
     TMCC2CommandDef("REFUELLING", 301, 0, 0, FALSE),
     TMCC2CommandDef("RELATIVE_SPEED", TMCC2_SET_RELATIVE_SPEED_COMMAND, 0, 0, TRUE),
     TMCC2CommandDef("REVERSE_DIRECTION", 259, 0, 0, FALSE),
     TMCC2CommandDef("RING_BELL", TMCC2_RING_BELL_COMMAND, 0, 0, FALSE),
     TMCC2CommandDef("SET_ADDRESS", 299, 0, 0, FALSE),
     TMCC2CommandDef("SHUTDOWN_DELAYED", 509, 0, 0, FALSE),
     TMCC2CommandDef("SHUTDOWN_IMMEDIATE", 510, 0, 0, FALSE),
     TMCC2CommandDef("SPEED_HIGH_BALL", BitOr(TMCC2_SET_ABSOLUTE_SPEED_COMMAND, 199), 0, 0, FALSE),
     TMCC2CommandDef("SPEED_LIMITED", BitOr(TMCC2_SET_ABSOLUTE_SPEED_COMMAND, 118), 0, 0, FALSE),
     TMCC2CommandDef("SPEED_MEDIUM", BitOr(TMCC2_SET_ABSOLUTE_SPEED_COMMAND, 92), 0, 0, FALSE),
     TMCC2CommandDef("SPEED_NORMAL", BitOr(TMCC2_SET_ABSOLUTE_SPEED_COMMAND, 145), 0, 0, FALSE),
     TMCC2CommandDef("SPEED_RESTRICTED", BitOr(TMCC2_SET_ABSOLUTE_SPEED_COMMAND, 24), 0, 0, FALSE),
     TMCC2CommandDef("SPEED_ROLL", BitOr(1, 1), 0, 0, FALSE),
     TMCC2CommandDef("SPEED_SLOW", BitOr(TMCC2_SET_ABSOLUTE_SPEED_COMMAND, 59), 0, 0, FALSE),
     TMCC2CommandDef("STALL", 248, 0, 0, FALSE),
     TMCC2CommandDef("START_UP_DELAYED", 507, 0, 0, FALSE),
     TMCC2CommandDef("START_UP_IMMEDIATE", 508, 0, 0, FALSE),
     TMCC2CommandDef("STOP_IMMEDIATE", 251, 0, 0, FALSE),
     TMCC2CommandDef("SYSTEM_HALT", 427, 0, 0, FALSE),
     TMCC2CommandDef("TOGGLE_DIRECTION", 257, 0, 0, FALSE),
     TMCC2CommandDef("TRAIN_BRAKE", TMCC2_SET_TRAIN_BRAKE_COMMAND, 0, 7, FALSE),
     TMCC2CommandDef("WATER_INJECTOR", 424, 0, 0, FALSE)}

\* the arguments an entry is encoded with: no operand for an entry without
\* operand bits, any operand otherwise
ArgsOf(o) == IF d_bits(o) = 0 THEN {NoData} ELSE Operands

\* every <<entry, operand, command word>> the catalog encodes
Encodings ==
    {<<ov[1].name, ov[2], apply_data(ov[1], ov[2]).word>> :
        ov \in {x \in TMCC2EngineCommandDef \X (Operands \cup {NoData}) :
                   /\ x[2] \in ArgsOf(x[1])
                   /\ apply_data(x[1], x[2]).ok}}

\* what a decoder can make of the word: the (entry, operand) pairs of the
\* catalog that encode to it
KDecode ==
    /\ pcE = "done"
    /\ eOut.ok
    /\ eOpt \in TMCC2EngineCommandDef
    /\ eBack' = {<<e[1], e[2]>> : e \in {x \in Encodings : x[3] = eOut.word}}
    /\ pcE' = "decoded"
    /\ UNCHANGED <<eOpt, eData, eOut>>
    /\ UNCHANGED <<dispVars, regVars, callVars, lsnVars, relayVars, histVars,
                   lifeVars, codecVars, stateVars, extVars>>

CatInit ==
    /\ eOpt \in TMCC2EngineCommandDef \cup EngineOptions
    /\ eData \in Operands \cup {NoData}
    /\ eOut = RaisedValueError
    /\ pcE = "new"
    /\ eBack = {}
    /\ ListenerIdle
    /\ DispInitCommon
    /\ offersLeft = 0
    /\ reqPool = {}
    /\ channels = EmptyRegistry.channels
    /\ chanSubs = EmptyRegistry.chanSubs
    /\ broadcasts = FALSE
    /\ CallersIdle
    /\ callsLeft = 0
    /\ RelayOff
    /\ HistInit
    /\ LifeIdle
    /\ CodecIdle
    /\ StoreIdle
    /\ ExtIdle

CatNext == EApply \/ KDecode

CatSpec == CatInit /\ [][CatNext]_vars

(***************************************************************************)
(* Properties of CatSpec                                                   *)
(***************************************************************************)
\* C31: for every entry of the TMCC2 engine catalog that takes an operand
\* and every operand the encoder accepts, the command word decodes to that
\* entry and that operand only: no other entry of the catalog, with or
\* without an operand, encodes to the same word.
C31_EncodingInvertible ==
    (pcE = "decoded" /\ TakesData(eOpt)) => eBack = {<<eOpt.name, eData>>}

\* C33: for every entry that takes an operand and every operand the encoder
\* accepts, the packed operand lies in the low d_bits bits: the word with
\* that field cleared is the entry's opcode, the field holds the operand's
\* code, and the opcode has no bit set inside the field.
C33_OperandInsideField ==
    (pcE \in {"done", "decoded"} /\ TakesData(eOpt) /\ eOut.ok) =>
       LET field == 2^d_bits(eOpt)
           code == IF eOpt.d_map THEN RELATIVE_SPEED_MAP[eData] ELSE eData
       IN /\ eOut.word - (eOut.word % field) = eOpt.command_op
          /\ eOut.word % field = code
          /\ eOpt.command_op % field = 0

C33_Witness ==
    /\ pcE = "done"
    /\ eOpt \in TMCC2EngineCommandDef
    /\ eOpt.name = "MOMENTUM"
    /\ eData = 7
    /\ eOut = [ok |-> TRUE, word |-> 207]

(***************************************************************************)
(* ProxySpec: the proxy receiver.  socketserver.TCPServer serves one       *)
(* connection at a time; each runs EnqueueHandler.handle.  The peer sends  *)
(* its payload in one or two pieces and closes; CommBuffer is not part of  *)
(* the sources, enqueue_command is taken to append to the transmit queue.  *)
(***************************************************************************)
\* connections made to the receiver
MaxConnections == 2

\* enqueue_proxy_requests.py:11, int(0xff).to_bytes(1) * 6
REGISTER_REQUEST == <<255, 255, 255, 255, 255, 255>>

\* enqueue_proxy_requests.py:12, int(0xfff0).to_bytes(2, byteorder='big') * 3
SYNC_STATE_REQUEST == <<255, 240, 255, 240, 255, 240>>

\* what a client sends: the two requests, two command payloads (one of them
\* a register request followed by a byte), or nothing
Payloads ==
    {REGISTER_REQUEST, SYNC_STATE_REQUEST, <<254, 9, 0>>,
     REGISTER_REQUEST \o <<0>>, <<>>}

\* the recv() results the payload can arrive as: whole, or cut in two
ChunksOf(p) ==
    IF p = <<>> THEN {<<>>}
    ELSE {<<p>>} \cup
         {<<SubSeq(p, 1, k), SubSeq(p, k + 1, Len(p))>> : k \in 1..(Len(p) - 1)}

\* a connection is accepted; line 125
HAccept ==
    /\ pcH = "idle"
    /\ connsLeft > 0
    /\ connsLeft' = connsLeft - 1
    /\ \E p \in Payloads : hIn' \in ChunksOf(p)
    /\ hClient' \in Clients
    /\ hStream' = <<>>
    /\ hData' = <<>>
    /\ hAcks' = 0
    /\ pcH' = "recv"
    /\ UNCHANGED <<txQueue, hDone>>
    /\ UNCHANGED <<dispVars, regVars, callVars, lsnVars, relayVars, histVars,
                   lifeVars, codecVars, stateVars, encVars, stopVars,
                   faultVars>>

\* one round of the loop of lines 126-132; recv() returns b'' once the peer
\* has closed
HRecv ==
    /\ pcH = "recv"
    /\ IF hIn # <<>>
       THEN /\ hData' = Head(hIn)
            /\ hIn' = Tail(hIn)
            /\ hStream' = hStream \o Head(hIn)
            /\ hAcks' = hAcks + 1
            /\ pcH' = "recv"
       ELSE /\ hData' = <<>>
            /\ pcH' = "note"
            /\ UNCHANGED <<hIn, hStream, hAcks>>
    /\ UNCHANGED <<hClient, connsLeft, txQueue, hDone>>
    /\ UNCHANGED <<dispVars, regVars, callVars, lsnVars, relayVars, histVars,
                   lifeVars, codecVars, stateVars, encVars, stopVars,
                   faultVars>>

\* line 133
HNote ==
    /\ pcH = "note"
    /\ clients' = IF proxyBuilt THEN clients \cup {hClient} ELSE clients
    /\ pcH' = "route"
    /\ UNCHANGED <<hIn, hData, hStream, hAcks, hClient, connsLeft, txQueue,
                   hDone>>
    /\ UNCHANGED <<proxyBuilt, clientPort, curClients, relayTodo, relayLog>>
    /\ UNCHANGED <<dispVars, regVars, callVars, lsnVars, histVars,
                   lifeVars, codecVars, stateVars, encVars, stopVars,
                   faultVars>>

\* lines 134-139: the tests are made on data
HRoute ==
    /\ pcH = "route"
    /\ IF hData = REGISTER_REQUEST
       THEN UNCHANGED txQueue
       ELSE IF hData = SYNC_STATE_REQUEST
            THEN UNCHANGED txQueue
            ELSE txQueue' = Append(txQueue, hStream)
    /\ hDone' = Append(hDone, hStream)
    /\ pcH' = "idle"
    /\ UNCHANGED <<hIn, hData, hStream, hAcks, hClient, connsLeft>>
    /\ UNCHANGED <<dispVars, regVars, callVars, lsnVars, relayVars, histVars,
                   lifeVars, codecVars, stateVars, encVars, stopVars,
                   faultVars>>

ProxyInit ==
    /\ hIn = <<>>
    /\ hData = <<>>
    /\ hStream = <<>>
    /\ hAcks = 0
    /\ hClient = "none"
    /\ pcH = "idle"
    /\ connsLeft = MaxConnections
    /\ txQueue = <<>>
    /\ hDone = <<>>
    /\ proxyBuilt = TRUE
    /\ clientPort = FALSE
    /\ clients = {}
    /\ curClients = <<>>
    /\ relayTodo = <<>>
    /\ relayLog = <<>>
    /\ ListenerIdle
    /\ DispInitCommon
    /\ offersLeft = 0
    /\ reqPool = {}
    /\ channels = EmptyRegistry.channels
    /\ chanSubs = EmptyRegistry.chanSubs
    /\ broadcasts = FALSE
    /\ CallersIdle
    /\ callsLeft = 0
    /\ HistInit
    /\ LifeIdle
    /\ CodecIdle
    /\ StoreIdle
    /\ EncIdle
    /\ StopIdle
    /\ FaultIdle

ProxyNext == HAccept \/ HRecv \/ HNote \/ HRoute

ProxySpec == ProxyInit /\ [][ProxyNext]_vars

IsRequest(p) == p = REGISTER_REQUEST \/ p = SYNC_STATE_REQUEST

NonEmpty(p) == p # <<>>

IsCommandPayload(p) == NonEmpty(p) /\ ~IsRequest(p)

\* C32: the proxy receiver forwards a received byte sequence to the transmit
\* queue if and only if it is neither the register handshake nor the
\* sync-state request: the non-empty entries of the transmit queue are, in
\* order and once each, the non-empty payloads handled that are neither.
C32_ForwardsOnlyCommands ==
    SelectSeq(txQueue, NonEmpty) = SelectSeq(hDone, IsCommandPayload)

(***************************************************************************)
(* StopSpec: the listener thread, the transport and one caller of          *)
(* PdiListener.stop().  The loop head of run() is taken in its two steps:  *)
(* the test of the running flag (line 112) and the block that takes the    *)
(* condition and waits on an empty deque (lines 114-116).                  *)
(***************************************************************************)
\* what the transport delivers: nothing, an unterminated frame, garbage and
\* an unterminated frame, a whole frame
StopStreams ==
    {<<>>, <<PDI_SOP, BASE_ENGINE, 1>>, <<1, PDI_SOP, BASE_ENGINE>>,
     AsBytes(<<BASE_ENGINE, 1, 2>>)}

\* line 112: while self._is_running
STest ==
    /\ pcL = "top"
    /\ pcL' = IF lsnRunning THEN "enter" ELSE "exit"
    /\ UNCHANGED <<deque, lsnRunning, dqLen, eopPos, popLeft, reqBytes,
                   toOffer, emitted, rejected>>
    /\ UNCHANGED <<dispVars, regVars, callVars, relayVars, histVars,
                   lifeVars, libVars>>

\* lines 114-116: with self._cv: if not self._deque: self._cv.wait()
SEnter ==
    /\ pcL = "enter"
    /\ pcL' = IF deque = <<>> THEN "waiting" ELSE "len"
    /\ UNCHANGED <<deque, lsnRunning, dqLen, eopPos, popLeft, reqBytes,
                   toOffer, emitted, rejected>>
    /\ UNCHANGED <<dispVars, regVars, callVars, relayVars, histVars,
                   lifeVars, libVars>>

\* lines 150-152: the loop is left, the dispatcher is shut down
SExit ==
    /\ pcL = "exit"
    /\ pcL' = "ended"
    /\ IF lObj[1].disp # 0
       THEN /\ dObj' = DispatcherStopped(dObj, lObj[1].disp)
            /\ dInstance' = InstanceAfterShutdown(lObj[1].disp)
       ELSE UNCHANGED <<dObj, dInstance>>
    /\ lObj' = [lObj EXCEPT ![1].threads = @ - 1]
    /\ UNCHANGED <<lInstance, pcB, bNested, bSelfD, bSelfL, bRet, buildsLeft,
                   shutCalls>>
    /\ UNCHANGED <<deque, lsnRunning, dqLen, eopPos, popLeft, reqBytes,
                   toOffer, emitted, rejected>>
    /\ UNCHANGED <<dispVars, regVars, callVars, relayVars, histVars,
                   codecVars, stateVars, encVars, proxyVars, stopVars,
                   faultVars>>

\* stop(), lines 64-67, and shutdown(), lines 161-164: the flag is cleared
\* and the condition notified, both under the condition's lock
KStopFlag ==
    /\ pcS = "idle"
    /\ lInstance # 0
    /\ lsnRunning' = FALSE
    /\ lObj' = [lObj EXCEPT ![lInstance].running = FALSE]
    /\ pcL' = IF pcL = "waiting" THEN "len" ELSE pcL
    /\ pcS' = "disp"
    /\ UNCHANGED <<dInstance, dObj, lInstance, pcB, bNested, bSelfD, bSelfL,
                   bRet, buildsLeft, shutCalls>>
    /\ UNCHANGED <<deque, dqLen, eopPos, popLeft, reqBytes, toOffer, emitted,
                   rejected>>
    /\ UNCHANGED <<dispVars, regVars, callVars, relayVars, histVars,
                   codecVars, stateVars, encVars, proxyVars, faultVars>>

\* shutdown(), lines 165-167: self._dispatcher.shutdown()
KStopDisp ==
    /\ pcS = "disp"
    /\ IF lObj[1].disp # 0
       THEN /\ dObj' = DispatcherStopped(dObj, lObj[1].disp)
            /\ dInstance' = InstanceAfterShutdown(lObj[1].disp)
       ELSE UNCHANGED <<dObj, dInstance>>
    /\ pcS' = "clear"
    /\ UNCHANGED <<lInstance, lObj, pcB, bNested, bSelfD, bSelfL, bRet,
                   buildsLeft, shutCalls>>
    /\ UNCHANGED <<dispVars, regVars, callVars, lsnVars, relayVars, histVars,
                   codecVars, stateVars, encVars, proxyVars, faultVars>>

\* shutdown(), lines 168-171: the transport is shut down and
\* PdiListener._instance = None
KStopClear ==
    /\ pcS = "clear"
    /\ lInstance' = 0
    /\ pcS' = "done"
    /\ UNCHANGED <<dInstance, dObj, lObj, pcB, bNested, bSelfD, bSelfL, bRet,
                   buildsLeft, shutCalls>>
    /\ UNCHANGED <<dispVars, regVars, callVars, lsnVars, relayVars, histVars,
                   codecVars, stateVars, encVars, proxyVars, faultVars>>

StopInit ==
    /\ deque = <<>>
    /\ lsnRunning = TRUE
    /\ pcL = "top"
    /\ dqLen = 0
    /\ eopPos = 0
    /\ popLeft = 0
    /\ reqBytes = <<>>
    /\ toOffer \in StopStreams
    /\ emitted = <<>>
    /\ rejected = 0
    /\ DispInitCommon
    /\ offersLeft = 0
    /\ reqPool = {}
    /\ channels = EmptyRegistry.channels
    /\ chanSubs = EmptyRegistry.chanSubs
    /\ broadcasts = FALSE
    /\ CallersIdle
    /\ callsLeft = 0
    /\ RelayOff
    /\ HistInit
    \* PdiListener.build() has returned: both singletons are set and running
    /\ dInstance = 1
    /\ dObj = <<[initialized |-> TRUE, inits |-> 1, running |-> TRUE,
                 threads |-> 1]>>
    /\ lInstance = 1
    /\ lObj = <<[initialized |-> TRUE, inits |-> 1, running |-> TRUE,
                 threads |-> 1, disp |-> 1]>>
    /\ pcB = [b \in Callers |-> "idle"]
    /\ bNested = [b \in Callers |-> FALSE]
    /\ bSelfD = [b \in Callers |-> 0]
    /\ bSelfL = [b \in Callers |-> 0]
    /\ bRet = <<>>
    /\ buildsLeft = 0
    /\ shutCalls = 0
    /\ CodecIdle
    /\ StoreIdle
    /\ EncIdle
    /\ ProxyIdle
    /\ pcS = "idle"
    /\ FaultIdle

StopThread ==
    STest \/ SEnter \/ LLen \/ LScan \/ LCheck \/ LPop \/ LDispatch \/ LDrop
      \/ SExit

Stopper == KStopFlag \/ KStopDisp \/ KStopClear

StopNext ==
    \/ LOffer
    \/ STest
    \/ SEnter
    \/ LLen
    \/ LScan
    \/ LCheck
    \/ LPop
    \/ LDispatch
    \/ LDrop
    \/ SExit
    \/ KStopFlag
    \/ KStopDisp
    \/ KStopClear

StopSpec == StopInit /\ [][StopNext]_vars

StopFairSpec ==
    StopSpec /\ WF_vars(StopThread) /\ WF_vars(Stopper) /\ WF_vars(LOffer)

\* C34: once PdiListener.shutdown() has returned, the listener thread
\* eventually leaves its run loop, wherever in the loop it was; by then the
\* dispatcher has been shut down and PdiListener._instance is None.
C34_ShutdownEndsListener ==
    (pcS = "done") ~> (/\ pcL = "ended"
                       /\ ~dObj[1].running
                       /\ lInstance = 0)

(***************************************************************************)
(* WakeSpec: the listener thread and the transport as in LsnSpec, with the *)
(* loop head of run() taken in its two steps, so that offer() can run      *)
(* between the test of the flag and the block that waits.                  *)
(***************************************************************************)
WakeThread ==
    STest \/ SEnter \/ LLen \/ LScan \/ LCheck \/ LPop \/ LDispatch \/ LDrop

WakeNext ==
    \/ LOffer
    \/ STest
    \/ SEnter
    \/ LLen
    \/ LScan
    \/ LCheck
    \/ LPop
    \/ LDispatch
    \/ LDrop

\* the streams of StopSpec, a frame with a stuffed EOP in its body, and two
\* frames back to back
WakeStreams ==
    StopStreams \cup
      {AsBytes(<<BASE_ENGINE, PDI_EOP>>),
       AsBytes(<<BASE_ENGINE, 1, 2>>) \o AsBytes(<<BASE_ENGINE, 2, 2>>)}

WakeInit ==
    /\ deque = <<>>
    /\ lsnRunning = TRUE
    /\ pcL = "top"
    /\ dqLen = 0
    /\ eopPos = 0
    /\ popLeft = 0
    /\ reqBytes = <<>>
    /\ toOffer \in WakeStreams
    /\ emitted = <<>>
    /\ rejected = 0
    /\ DispInitCommon
    /\ offersLeft = 0
    /\ reqPool = {}
    /\ channels = EmptyRegistry.channels
    /\ chanSubs = EmptyRegistry.chanSubs
    /\ broadcasts = FALSE
    /\ CallersIdle
    /\ callsLeft = 0
    /\ RelayOff
    /\ HistInit
    /\ LibIdle
    /\ LifeIdle

WakeSpec == WakeInit /\ [][WakeNext]_vars

WakeFairSpec == WakeSpec /\ WF_vars(WakeThread) /\ WF_vars(LOffer)

\* C35: the listener thread blocks when it finds its buffer empty, an
\* offer() made while it is blocked wakes it, it is never blocked while
\* bytes are buffered (no wake-up is lost), and whenever bytes are buffered
\* while the thread is at the loop head, whatever the point of the head it
\* is at, the framing state machine eventually runs on them.
C35_NoWakeupLost ==
    /\ [](pcL = "waiting" => deque = <<>>)
    /\ [][(pcL = "enter" /\ deque = <<>> /\ pcL' # pcL)
             => pcL' = "waiting"]_vars
    /\ [][(pcL = "waiting" /\ toOffer' # toOffer) => pcL' = "len"]_vars
    /\ []((deque # <<>> /\ pcL \in {"top", "enter", "waiting", "len"})
             => <>(pcL = "scan" /\ dqLen > 0))

\* the thread has been handed a frame, has run the state machine on it and
\* blocks again on the emptied buffer
C35_Witness ==
    /\ pcL = "waiting"
    /\ deque = <<>>
    /\ toOffer = <<>>
    /\ Len(emitted) = 1

(***************************************************************************)
(* Properties of StateSpec: the life of a record                           *)
(***************************************************************************)
\* a step that is a states[key] access: update() calls advance the clock
IsAccess == clock' = clock

\* C36: the first access to the dict with a mapped scope constructs a record
\* of the type mapped to the scope, with that scope, and installs it under
\* the key; a later access with the key returns the installed record and
\* leaves it as it is; no step removes a record or replaces it by one of
\* another type or scope.
C36_LazyInstallOnce ==
    [][/\ \A k \in CommandScopes :
            states[k] # NoState
               => /\ states'[k] # NoState
                  /\ states'[k].cls = states[k].cls
                  /\ states'[k].scope = states[k].scope
       /\ IsAccess
            => /\ \A k \in CommandScopes :
                     states[k] # NoState => states'[k] = states[k]
               /\ \A k \in DOMAIN _SCOPE_TO_STATE_MAP :
                     (lastGet'.key = k /\ states[k] = NoState)
                        => /\ states'[k] = NewState(_SCOPE_TO_STATE_MAP[k], k)
                           /\ lastGet'.out = "record"
               /\ \A k \in CommandScopes :
                     (lastGet'.key = k /\ states[k] # NoState)
                        => lastGet'.out = "record"]_vars

\* the TRAIN record has been built by an access and is installed, untouched
C36_Witness ==
    /\ lastGet = [key |-> "TRAIN", out |-> "record"]
    /\ states["TRAIN"] = NewState("EngineState", "TRAIN")

(***************************************************************************)
(* PingSpec: RelaySpec with the relay on from the start and with producers *)
(* that also offer a PING, None and an object that is no PdiReq.           *)
(***************************************************************************)
\* what the producers of one run hand to offer()
PingPools == {RegReqs \cup {PingReq}, RegReqs \cup {NoneReq, NotAReq}}

PingInit ==
    /\ DispInitCommon
    /\ offersLeft = MaxRelayOffers
    /\ reqPool \in PingPools
    /\ LET reg == SubscribeAll(RelayPreset, EmptyRegistry)
       IN /\ channels = reg.channels
          /\ chanSubs = reg.chanSubs
          /\ broadcasts = (reg.channels[BROADCAST_TOPIC] # 0)
    /\ CallersIdle
    /\ callsLeft = 0
    /\ ListenerIdle
    /\ proxyBuilt = TRUE
    /\ clientPort = proxyBuilt
    /\ clients = {}
    /\ curClients = <<>>
    /\ relayTodo = <<>>
    /\ relayLog = <<>>
    /\ HistInit
    /\ LibIdle
    /\ LifeIdle

PingNext ==
    \/ \E p \in Producers : OfferBegin(p)
    \/ \E p \in Producers : OfferLock(p)
    \/ \E p \in Producers : OfferPut(p)
    \/ DLoop
    \/ DLock
    \/ DWake
    \/ DCheck
    \/ DRoute
    \/ DPubIn
    \/ DPubGet
    \/ DPubCall
    \/ DBflag
    \/ DRelay
    \/ DSend
    \/ DFinish
    \/ DShutdown
    \/ \E c \in Clients : NoteClient(c)

PingSpec == PingInit /\ [][PingNext]_vars

\* the request is one that subscribers and clients may be handed
Deliverable(req) == req.kind \in {"lcs", "tmcc"}

\* C37: a PING (and None, and an object that is no PdiReq) is never on the
\* work queue, is never the request run() handles, and is never published
\* on a topic, delivered to a subscriber or sent to a remote client.
C37_PingNeverQueued ==
    /\ \A i \in DOMAIN queue : Deliverable(queue[i])
    /\ \A i \in DOMAIN enqueued : Deliverable(enqueued[i])
    /\ \A p \in Producers : pcP[p] # "idle" => Deliverable(pReq[p])
    /\ pcD \in Handling => Deliverable(cur)
    /\ \A i \in DOMAIN pubLog :
          pubLog[i][1] \in DOMAIN enqueued /\ Deliverable(enqueued[pubLog[i][1]])
    /\ \A s \in Subscribers : \A i \in DOMAIN received[s] :
          /\ received[s][i][1] \in DOMAIN enqueued
          /\ Deliverable(enqueued[received[s][i][1]])
    /\ \A i \in DOMAIN relayLog :
          relayLog[i][1] \in DOMAIN enqueued /\ Deliverable(enqueued[relayLog[i][1]])
    /\ \A i \in DOMAIN tmccFwd :
          tmccFwd[i] \in DOMAIN enqueued /\ Deliverable(enqueued[tmccFwd[i]])

\* of the offers made, one was a PING and was ignored; the other request
\* was published, delivered and relayed
C37_Witness ==
    /\ reqPool = RegReqs \cup {PingReq}
    /\ offersLeft = 0
    /\ \A p \in Producers : pcP[p] = "idle"
    /\ Len(enqueued) = MaxRelayOffers - 1
    /\ handled = MaxRelayOffers - 1
    /\ pubLog # <<>>
    /\ relayLog # <<>>
    /\ \E s \in Subscribers : received[s] # <<>>

(***************************************************************************)
(* FaultSpec: RelaySpec with the relay on from the start, where handling   *)
(* a request may raise: the TMCC forward of line 265, a subscriber called  *)
(* by Channel.publish (lines 267-271), or the relay before its first send  *)
(* (lines 284-286).  The try statement of run(), lines 260-277, prints the *)
(* exception and goes on to its finally clause.                            *)
(***************************************************************************)
\* the positions of run() at which a call it makes may raise
CanRaise ==
    \/ pcD = "route" /\ IsTmccReq(cur)
    \/ pcD = "pub_call"
    \/ pcD = "relay" /\ clientPort

\* lines 260-277 with no except clause: the finally clause runs, then the
\* exception leaves run() and the thread ends
DRaiseUncaught ==
    /\ CanRaise
    /\ raised' = raised \cup {CurIdx}
    /\ handled' = handled + 1
    /\ pcD' = "done"
    /\ stage' = 0
    /\ dRef' = 0
    /\ cur' = NotAReq
    /\ UNCHANGED <<queue, cvOwner, isRunning, broadcasts, pcP, pReq,
                   offersLeft, reqPool, enqueued, pubLog, received, tmccFwd>>
    /\ UNCHANGED <<regVars, callVars, lsnVars, relayVars, histVars, lifeVars,
                   codecVars, stateVars, encVars, proxyVars, stopVars>>

\* lines 274-275: the exception is caught and printed; line 277 follows
DRaise ==
    /\ CanRaise
    /\ raised' = raised \cup {CurIdx}
    /\ pcD' = "finish"
    /\ stage' = 0
    /\ dRef' = 0
    /\ UNCHANGED <<queue, cvOwner, isRunning, broadcasts, cur, handled, pcP,
                   pReq, offersLeft, reqPool, enqueued, pubLog, received,
                   tmccFwd>>
    /\ UNCHANGED <<regVars, callVars, lsnVars, relayVars, histVars, lifeVars,
                   codecVars, stateVars, encVars, proxyVars, stopVars>>

FaultInit == RelayInit /\ proxyBuilt

FaultNext == PingNext \/ DRaise

FaultSpec == FaultInit /\ [][FaultNext]_vars

\* requests dequeued so far
Dequeued == Len(curClients)

\* C38: an exception raised while a dequeued request is handled does not end
\* the dispatcher thread (it leaves run() only once the running flag is
\* cleared); task_done is called once for every dequeued request, the one
\* that raised included; and every other request, also one dequeued after
\* the exception, is published on all its topics by the time it is done.
C38_ExceptionContained ==
    /\ pcD = "done" => ~isRunning
    /\ handled = Dequeued - (IF pcD \in Handling THEN 1 ELSE 0)
    /\ \A j \in DOMAIN curClients :
          (j <= handled /\ curClients[j][1] \notin raised)
             => PublishedOn(curClients[j][1]) =
                   ExpectedAll(enqueued[curClients[j][1]])

\* the first request raised, the second one was then published on its four
\* topics and marked done, and the thread is still running
C38_Witness ==
    /\ raised = {1}
    /\ handled = 2
    /\ isRunning
    /\ pcD # "done"
    /\ ~IsTmccReq(enqueued[2])
    /\ Len(PublishedOn(2)) = 4

(***************************************************************************)
(* RaceSpec: three well-formed frames arrive back to back, more bytes than *)
(* the deque holds, while the listener thread runs; offer() may run        *)
(* between any two steps of the run loop.                                  *)
(***************************************************************************)
RaceStreams ==
    {AsBytes(<<BASE_ENGINE, 1, 2>>) \o AsBytes(<<BASE_ENGINE, 2, 2>>)
        \o AsBytes(<<BASE_ENGINE, 2, 1>>)}

RaceInit ==
    /\ deque = <<>>
    /\ lsnRunning = TRUE
    /\ pcL = "top"
    /\ dqLen = 0
    /\ eopPos = 0
    /\ popLeft = 0
    /\ reqBytes = <<>>
    /\ toOffer \in RaceStreams
    /\ emitted = <<>>
    /\ rejected = 0
    /\ DispInitCommon
    /\ offersLeft = 0
    /\ reqPool = {}
    /\ channels = EmptyRegistry.channels
    /\ chanSubs = EmptyRegistry.chanSubs
    /\ broadcasts = FALSE
    /\ CallersIdle
    /\ callsLeft = 0
    /\ RelayOff
    /\ HistInit
    /\ LibIdle
    /\ LifeIdle

RaceSpec == RaceInit /\ [][LsnNext]_vars

\* x is a run of consecutive bytes of s
IsSlice(x, s) ==
    \E i \in 0..(Len(s) - Len(x)) : SubSeq(s, i + 1, i + Len(x)) = x

\* C39: what the listener thread hands to PdiReq.from_bytes starts with
\* SOP, ends with EOP and is a run of consecutive bytes of the stream that
\* was offered, also when offer() runs between the steps of the run loop.
C39_FramesAreSlices ==
    pcL = "dispatch" =>
       /\ reqBytes # <<>>
       /\ reqBytes[1] = PDI_SOP
       /\ reqBytes[Len(reqBytes)] = PDI_EOP
       /\ \E s \in RaceStreams : IsSlice(reqBytes, s)

====
